---- MODULE Spec2Model ----
(***************************************************************************)
(* A model of the PDF exporter's resource bookkeeping:                     *)
(*   - Remapper (crates/typst-pdf/src/lib.rs), the content deduplicator;   *)
(*   - ColorFontMap and write_color_fonts                                  *)
(*     (crates/typst-pdf/src/color_font.rs), the Type3 color-glyph packer; *)
(*   - PdfBuilder (crates/typst-pdf/src/lib.rs), the phase pipeline with   *)
(*     its chunk allocation and renumbering.                               *)
(* Each part has its own specification over its own variables; the other   *)
(* variables keep their initial values in that specification.              *)
(***************************************************************************)
EXTENDS Integers, Sequences, FiniteSets, TLC

\* ------------------------------------------------------------------------
\* Bounds of the model.

\* Number of distinct resource values offered to Remapper::insert.
NumKeys == 4

\* Largest number of color glyphs recorded for font 1 (the font with the
\* large repertoire) in one ColorFontMap.
MaxGlyphs == 258

\* Largest number of color glyphs recorded for each other font.
MaxSmall == 1

\* Largest number of color glyphs recorded in the nested resource context.
MaxNested == 1

\* Glyph ids below this number are met in any order; the ids from it on are
\* met in ascending order.
FreeGids == 2

\* Largest number of pages of the document.
MaxPages == 1

\* Largest number of indirect objects the producers write into chunks in one
\* run of the pipeline.
MaxObjs == 2

\* Largest number of resources a page worker discovers, and the number of
\* distinct resource values the workers meet.
MaxFinds == 2

\* The number of distinct content byte sequences, and the largest number of
\* deflate_deferred calls of a run.
MaxContents == 2

MaxRequests == 3

\* Largest number of chunks alive at once in the model of PdfChunk.
MaxChunks == 2

\* A chunk's allocations are followed for this many calls after its creation
\* and after its last id inside its section.
MaxExtra == 3

\* Largest number of calls made on one PdfBuilder.
MaxCalls == 7

\* ------------------------------------------------------------------------
\* Program constants.

\* lib.rs: const ALLOC_SECTION_SIZE: i32 = 1_000_000
ALLOC_SECTION_SIZE == 1000000

\* lib.rs, PdfBuilder::new: alloc: Ref::new(1)
FIRST_REF == 1

\* lib.rs, GlobalRefs::len: self.pages.len() + 5
GLOBALS_BESIDE_PAGES == 5

\* The number of glyphs of one Type3 font (color_font.rs: the literal 256).
SLICE_SIZE == 256

\* The number of values of a u8 (the casts `as u8` of color_font.rs).
U8_RANGE == 256

\* The largest i32 (the ids of pdf_writer::Ref and the section counter are
\* i32).
I32_MAX == 2147483647

\* ------------------------------------------------------------------------
\* State.

VARIABLES
    remapper,   \* Remapper<T>: [to_pdf: key -> index, to_items: Seq(key)]
    rm_call,    \* <<>> or <<[item, ret]>>: the last insert call and its result
    rm_first,   \* history: the keys in order of their first insertion
    color_fonts,\* ColorFontMap: [map: IndexMap<Font, ColorFont>, resources,
                \* total_slice_count]
    cf_call,    \* <<>> or <<[font, gid, ret]>>: the last get call and its result
    cf_first,   \* history: <<font, gid>> -> the result of the first get for it
    resources,  \* the tree of Resources handed to write_color_fonts, in the
                \* order traverse visits it: Seq([color_fonts, glyph_sets])
    type3,      \* what write_color_fonts produced: [status, out, chunk_len]
    step,       \* PdfBuilder: how many steps of pdf() are done (0..12)
    document,   \* the Document: [pages |-> number of pages]
    context,    \* PdfBuilder::context: <<>> before construct, then the tree
                \* of PdfContext with their GlobalRefs
    alloc,      \* PdfBuilder::alloc, the global bump allocator (next id)
    current_alloc_section,  \* PdfBuilder::current_alloc_section
    globals_count,          \* PdfBuilder::globals_count
    pdf,        \* PdfBuilder::pdf: the indirect objects written, Seq([id, refs])
    references, \* PdfBuilder::references: the saved output of each with_resource
    chunks,     \* history: the chunks merged, with the renumbering of each
    pdf_chunks, \* PdfChunk allocators followed on their own: [section, list,
                \* status, call]
    workers,    \* page workers that share the Remapper: worker -> [page, pos,
                \* pc, got]
    deferred,   \* deflate_deferred: [phase, cache, tasks, requests, waits]
    builder,    \* the calls made on a PdfBuilder value: [G, calls], G the
                \* type parameter of the value ("moved" once it is consumed)
    merge,      \* the with_resource phases of a large document: [first, the
                \* first id after the globals; bulk, the phases whose chunk
                \* is given by its size alone]
    evaluator,  \* eval::evaluate: the Context (sources, modules, deps) and
                \* the stack of evaluate calls in progress
    machine     \* eval::Machine while one expression is evaluated: [flow,
                \* scopes, ...] and the expression with its outcome

rm_vars == <<remapper, rm_call, rm_first>>

cf_vars == <<color_fonts, cf_call, cf_first>>

t3_vars == <<resources, type3>>

pb_vars == <<step, document, context, alloc, current_alloc_section,
             globals_count, pdf, references, chunks>>

ck_vars == <<pdf_chunks>>

wk_vars == <<workers>>

df_vars == <<deferred>>

ts_vars == <<builder>>

mg_vars == <<merge>>

ev_vars == <<evaluator>>

vm_vars == <<machine>>

vars == <<remapper, rm_call, rm_first, color_fonts, cf_call, cf_first,
          resources, type3, step, document, context, alloc,
          current_alloc_section, globals_count, pdf, references, chunks,
          pdf_chunks, workers, deferred, builder, merge, evaluator,
          machine>>

\* ------------------------------------------------------------------------
\* Helpers.

Range(s) == {s[i] : i \in 1..Len(s)}

\* f with the pair k -> v added (or replaced).
MapPut(f, k, v) == (k :> v) @@ f

EmptyMap == [x \in {} |-> 0]

\* The cast `x as u8` of a non-negative integer.
AsU8(x) == x % U8_RANGE

\* ========================================================================
\* Remapper (lib.rs)
\* ========================================================================

Keys == 1..NumKeys

\* Remapper::new
RemapperNew == [to_pdf |-> EmptyMap, to_items |-> <<>>]

\* A faulty insert: pushes the item and hands out a new index every time.
RemapperInsertAlwaysPush(r, item) ==
    LET pdf_index == Len(r.to_items)
    IN  [rm  |-> [to_pdf   |-> MapPut(r.to_pdf, item, pdf_index),
                  to_items |-> Append(r.to_items, item)],
         ret |-> pdf_index]

\* A faulty insert: new items are put in front of to_items.
RemapperInsertPushFront(r, item) ==
    IF item \in DOMAIN r.to_pdf
    THEN [rm |-> r, ret |-> r.to_pdf[item]]
    ELSE LET pdf_index == Len(r.to_items)
         IN  [rm  |-> [to_pdf   |-> MapPut(r.to_pdf, item, pdf_index),
                       to_items |-> <<item>> \o r.to_items],
              ret |-> pdf_index]

\* Remapper::insert: to_pdf.entry(item).or_insert_with(|| { push; len before })
RemapperInsert(r, item) ==
    IF item \in DOMAIN r.to_pdf
    THEN [rm |-> r, ret |-> r.to_pdf[item]]
    ELSE LET pdf_index == Len(r.to_items)
         IN  [rm  |-> [to_pdf   |-> MapPut(r.to_pdf, item, pdf_index),
                       to_items |-> Append(r.to_items, item)],
              ret |-> pdf_index]

\* Remapper::items: the iterator over to_items, as the sequence it yields.
RemapperItems(r) == r.to_items

\* ========================================================================
\* ColorFontMap (color_font.rs)
\* ========================================================================

\* The fonts of the document that have color glyphs.
Fonts == {1, 2}

\* The drawing instructions content::build makes from frame_for_glyph(font,
\* gid): an opaque value that names the glyph it draws.
Instructions(font, gid) == <<font, gid>>

\* Resources::default(): the map's own resource context, of which the
\* deduplication table of the images and the reference (<<>> for the () of a
\* Resources<()>, <<ref>> once with_refs gave it one) are followed.
ResourcesDefault == [images |-> RemapperNew, reference |-> <<>>]

\* The images the frame frame_for_glyph(font, gid) draws: one per glyph, the
\* glyphs whose ids differ by 2 sharing theirs.
FrameImages(font, gid) == <<(gid % 2) + 1>>

\* The resources after the images items[i..] were registered.
RECURSIVE RegisterImages(_, _, _)
RegisterImages(res, items, i) ==
    IF i > Len(items) THEN res
    ELSE RegisterImages([res EXCEPT !.images = RemapperInsert(@, items[i]).rm],
                        items, i + 1)

\* A faulty build: the resources of the frame are registered nowhere.
ContentBuildNowhere(res, font, gid) == res

\* content::build(&mut self.resources, &frame), as far as the resources go:
\* what the frame draws is registered in the resources it is given.
ContentBuild(res, font, gid) == RegisterImages(res, FrameImages(font, gid), 1)

\* A ColorFont with no glyph, as get's or_insert_with builds it.  (bbox is a
\* function of the font alone and is left out.)
ColorFontNew == [slice_ids |-> <<>>, glyphs |-> <<>>, glyph_indices |-> EmptyMap]

\* ColorFontMap::new.  The IndexMap is its keys in insertion order and its
\* values.
ColorFontMapNew ==
    [map |-> [keys |-> <<>>, vals |-> EmptyMap], total_slice_count |-> 0,
     resources |-> ResourcesDefault]

\* map.entry(font).or_insert_with(...)
MapEntryOrInsert(map, font) ==
    IF font \in DOMAIN map.vals THEN map
    ELSE [keys |-> Append(map.keys, font),
          vals |-> MapPut(map.vals, font, ColorFontNew)]

\* A faulty test: a new slice every 255 glyphs.
NeedsNewSliceEvery255(index) == index % (SLICE_SIZE - 1) = 0

\* get: `index % 256 == 0`, a new Type3 font is needed for this glyph.
NeedsNewSlice(index) == index % SLICE_SIZE = 0

\* A faulty result: the slice of a known glyph is always the font's first.
KnownGlyphFirstSlice(color_font, index_of_glyph) ==
    <<color_font.slice_ids[1], AsU8(index_of_glyph)>>

\* get: the result for a glyph already known,
\* (color_font.slice_ids[index_of_glyph / 256], *index_of_glyph as u8)
KnownGlyph(color_font, index_of_glyph) ==
    <<color_font.slice_ids[(index_of_glyph \div SLICE_SIZE) + 1],
      AsU8(index_of_glyph)>>

\* A faulty get: the index of a new glyph is not recorded.
RecordIndexNever(glyph_indices, gid, index) == glyph_indices

\* get: color_font.glyph_indices.insert(gid, index)
RecordIndex(glyph_indices, gid, index) == MapPut(glyph_indices, gid, index)

\* ColorFontMap::get
ColorFontMapGet(cfm, font, gid) ==
    LET map        == MapEntryOrInsert(cfm.map, font)
        color_font == map.vals[font]
    IN  IF gid \in DOMAIN color_font.glyph_indices
        THEN [cfm |-> [cfm EXCEPT !.map = map],
              ret |-> KnownGlyph(color_font, color_font.glyph_indices[gid])]
        ELSE LET index == Len(color_font.glyphs)
                 fresh == NeedsNewSlice(index)
                 slice_ids == IF fresh
                              THEN Append(color_font.slice_ids, cfm.total_slice_count)
                              ELSE color_font.slice_ids
                 total == IF fresh THEN cfm.total_slice_count + 1
                          ELSE cfm.total_slice_count
                 glyph == [gid |-> gid, instructions |-> Instructions(font, gid)]
                 cf2 == [slice_ids |-> slice_ids,
                         glyphs |-> Append(color_font.glyphs, glyph),
                         glyph_indices |-> RecordIndex(color_font.glyph_indices, gid, index)]
             IN  [cfm |-> [map |-> [map EXCEPT !.vals[font] = cf2],
                           total_slice_count |-> total,
                           resources |-> ContentBuild(cfm.resources, font, gid)],
                  ret |-> <<slice_ids[(index \div SLICE_SIZE) + 1], AsU8(index)>>]

\* A faulty with_refs: the count of slices starts again at 0.
ColorFontMapWithRefsResets(cfm, refs) ==
    [map |-> cfm.map,
     resources |-> [cfm.resources EXCEPT !.reference = <<refs>>],
     total_slice_count |-> 0]

\* ColorFontMap::with_refs: the map and the count are moved into the new
\* value, the resources get their reference.
ColorFontMapWithRefs(cfm, refs) ==
    [map |-> cfm.map,
     resources |-> [cfm.resources EXCEPT !.reference = <<refs>>],
     total_slice_count |-> cfm.total_slice_count]

\* The glyphs recorded for font in cfm (none when the font is not in the map).
GlyphsOf(cfm, font) ==
    IF font \in DOMAIN cfm.map.vals THEN cfm.map.vals[font].glyphs ELSE <<>>

RecordedGids(cfm, font) ==
    IF font \in DOMAIN cfm.map.vals THEN DOMAIN cfm.map.vals[font].glyph_indices
    ELSE {}

\* How many color glyphs the document has for font.
MaxGlyphsOf(font) == IF font = 1 THEN MaxGlyphs ELSE MaxSmall

\* The glyph ids the page walk may ask for next: an id below FreeGids, the
\* smallest id not yet recorded (while the font has glyphs left), or the id
\* recorded first or last.
GidInputs(cfm, font) ==
    LET rec   == RecordedGids(cfm, font)
        n     == Len(GlyphsOf(cfm, font))
        free  == {g \in 0..(FreeGids - 1) : g \notin rec}
        new   == IF n >= MaxGlyphsOf(font) THEN {}
                 ELSE IF free # {} THEN free
                 ELSE {n}
        again == IF n > 0
                 THEN {GlyphsOf(cfm, font)[1].gid, GlyphsOf(cfm, font)[n].gid}
                 ELSE {}
    IN  new \cup again

\* ========================================================================
\* write_color_fonts (color_font.rs)
\* ========================================================================

\* The state before write_color_fonts ran.
NotWritten == [status |-> "none", out |-> <<>>, chunk_len |-> 0]

\* The map after the calls get(font, gids[lo]), ..., get(font, gids[hi]), in
\* this order.  The range is halved, and the first half is evaluated before
\* the second is entered, to keep the evaluation shallow.
RECURSIVE RecordRange(_, _, _, _, _)
RecordRange(cfm, font, gids, lo, hi) ==
    IF lo > hi THEN cfm
    ELSE IF lo = hi THEN ColorFontMapGet(cfm, font, gids[lo]).cfm
    ELSE LET mid  == (lo + hi) \div 2
             left == RecordRange(cfm, font, gids, lo, mid)
         IN  IF left.total_slice_count >= 0
             THEN RecordRange(left, font, gids, mid + 1, hi)
             ELSE left

\* The map after the calls get(font, gids[1]), get(font, gids[2]), ...
RecordAll(cfm, font, gids) == RecordRange(cfm, font, gids, 1, Len(gids))

\* The order in which the page walk meets n glyph ids of a font: the ids
\* below FreeGids ascending or (reversed) descending, then the others
\* ascending.
GidSeq(n, reversed) ==
    [i \in 1..n |->
        IF reversed /\ i <= FreeGids /\ n >= FreeGids THEN FreeGids - i
        ELSE i - 1]

\* font.advance(gid): <<>> when the font reports no advance for the glyph,
\* else <<the advance in 1000-units-per-em font units>>.
Advance(font, gid) == IF gid % 3 = 2 THEN <<>> ELSE <<500 + 10 * font + (gid % 7)>>

\* font.advance(color_glyph.gid).unwrap_or(Em::new(0.0)).to_font_units()
Width(font, gid) == IF Advance(font, gid) = <<>> THEN 0 ELSE Advance(font, gid)[1]

\* The glyph names eco_format!("glyph{gid}") for gid in 0..count, by number.
GlyphNames(count) == [i \in 1..count |-> i - 1]

\* A faulty sort: the glyph ids stay in the order of the window.
UnsortedGids(gids) == gids

\* Sorted copy of a sequence of distinct glyph ids (gids.sort()).
SortedGids(gids) ==
    LET set  == Range(gids)
        max  == CHOOSE m \in set : \A x \in set : x <= m
        IsIn(g) == g \in set
    IN  IF set = {} THEN <<>>
        ELSE SelectSeq([i \in 1..(max + 1) |-> i - 1], IsIn)

\* A faulty LastChar: the glyph count itself.
LastCharIsCount(glyph_count) == AsU8(glyph_count)

\* `(glyph_count - 1) as u8`.  glyph_count is a usize: when it is 0 the
\* subtraction wraps to usize::MAX in a build without overflow checks, and
\* the cast keeps the low 8 bits (usize::MAX = -1 modulo 256).
LastChar(glyph_count) == AsU8(glyph_count - 1)

\* The ToUnicode CMap of a slice: code -> text, for the glyphs whose id has a
\* non-empty text in glyph_set.  The code is `index as u8`; a slice has at
\* most 256 glyphs, so the code of the glyph at index is index itself.
ToUnicode(subset, glyph_set) ==
    LET codes == {i \in 1..Len(subset) :
                    /\ subset[i].gid \in DOMAIN glyph_set
                    /\ glyph_set[subset[i].gid] # <<>>}
    IN  [c \in {AsU8(i - 1) : i \in codes} |-> glyph_set[subset[c + 1].gid]]

\* A faulty slice count: one font per started window only.
SliceIndicesCeil(len) == 0..(((len + SLICE_SIZE - 1) \div SLICE_SIZE) - 1)

\* `0..(color_font.glyphs.len() / 256) + 1`: the font indices of a font.
SliceIndices(len) == 0..(len \div SLICE_SIZE)

\* color_fonts.resources.reference for the color-font map of context c: the
\* resource dictionary of the map's own sub-context.  A dictionary is named by
\* the index of its context in the tree; a sub-context that recorded nothing
\* is not in the tree and its dictionary gets a number of its own.
ResourcesRef(tree, c) == IF tree[c].sub # 0 THEN tree[c].sub ELSE Len(tree) + c

\* The body of the loop over font_index for one font of one context, from the
\* allocation of subfont_id on, for context c of the tree.  first is the next
\* id of the chunk, as an offset from the chunk's first id.  The result is the Type3 font written,
\* or panic when a build with overflow checks hits glyph_count - 1 with
\* glyph_count = 0, or when the context has no glyph set for the font.
WriteSlice(tree, c, font, font_index, first, build) ==
    LET res         == tree[c]
        color_font  == res.color_fonts[1].map.vals[font]
        start       == font_index * SLICE_SIZE
        end         == IF start + SLICE_SIZE < Len(color_font.glyphs)
                       THEN start + SLICE_SIZE ELSE Len(color_font.glyphs)
        glyph_count == end - start
        subset      == SubSeq(color_font.glyphs, start + 1, end)
        overflow    == glyph_count = 0 /\ build = "debug"
        no_set      == font \notin DOMAIN res.glyph_sets
    IN  IF overflow \/ no_set
        THEN [panic |-> TRUE]
        ELSE [panic |-> FALSE,
              ctx |-> c, font |-> font, subfont |-> font_index,
              subfont_id |-> first,
              Resources |-> ResourcesRef(tree, c),
              cmap_ref |-> first + 1,
              descriptor_ref |-> first + 2,
              widths_ref |-> first + 3,
              glyph_count |-> glyph_count,
              FirstChar |-> 0,
              LastChar |-> LastChar(glyph_count),
              Widths |-> [i \in 1..glyph_count |-> Width(font, subset[i].gid)],
              CharProcs |-> [i \in 1..glyph_count |->
                                [name |-> i - 1, stream |-> first + 3 + i,
                                 content |-> subset[i].instructions]],
              Encoding |-> GlyphNames(glyph_count),
              ToUnicode |-> ToUnicode(subset, res.glyph_sets[font]),
              subset_gids |-> SortedGids([i \in 1..glyph_count |-> subset[i].gid]),
              next |-> first + 4 + glyph_count]

\* The (context, font, font_index) triples the three nested loops visit, in
\* order: traverse over the contexts, the IndexMap in insertion order, the
\* font indices ascending.
RECURSIVE FontItems(_, _, _, _)
FontItems(res, c, keys, k) ==
    IF k > Len(keys) THEN <<>>
    ELSE LET font == keys[k]
             len  == Len(res.color_fonts[1].map.vals[font].glyphs)
             last == CHOOSE m \in SliceIndices(len) : \A x \in SliceIndices(len) : x <= m
         IN  [i \in 1..(last + 1) |-> <<c, font, i - 1>>]
                \o FontItems(res, c, keys, k + 1)

RECURSIVE SliceItems(_, _)
SliceItems(tree, c) ==
    IF c > Len(tree) THEN <<>>
    ELSE (IF tree[c].color_fonts = <<>> THEN <<>>
          ELSE FontItems(tree[c], c, tree[c].color_fonts[1].map.keys, 1))
            \o SliceItems(tree, c + 1)

\* The loops of write_color_fonts over items[i..], with the fonts written so
\* far in acc.out (the keys of `out` are their (font, subfont) pairs).
RECURSIVE WriteItems(_, _, _, _, _)
WriteItems(tree, items, i, acc, build) ==
    IF i > Len(items) \/ acc.status = "panic" THEN acc
    ELSE LET c          == items[i][1]
             font       == items[i][2]
             font_index == items[i][3]
             seen       == \E j \in 1..Len(acc.out) :
                              /\ acc.out[j].font = font
                              /\ acc.out[j].subfont = font_index
         IN  IF seen THEN WriteItems(tree, items, i + 1, acc, build)
             ELSE LET w == WriteSlice(tree, c, font, font_index, acc.chunk_len, build)
                  IN  IF w.panic
                      THEN [status |-> "panic", out |-> <<>>, chunk_len |-> 0]
                      ELSE WriteItems(tree, items, i + 1,
                                      [status |-> "done",
                                       out |-> Append(acc.out, w),
                                       chunk_len |-> w.next],
                                      build)

\* write_color_fonts: the fonts written (with, in `ctx`, the context each was
\* written for), or a panic that leaves no output.
WriteColorFonts(tree, build) ==
    WriteItems(tree, SliceItems(tree, 1), 1,
               [status |-> "done", out |-> <<>>, chunk_len |-> 0], build)

\* ========================================================================
\* PdfBuilder (lib.rs)
\* ========================================================================

\* The steps of pdf(), in order.
Steps == <<"construct", "color_fonts", "fonts", "images", "gradients",
           "ext_gs", "patterns", "named_destinations",
           "page_tree", "global_resources", "catalog", "export">>

\* PdfBuilder::new for a document with page_count pages.
PdfBuilderNew(page_count) ==
    /\ step = 0
    /\ document = [pages |-> page_count]
    /\ context = <<>>
    /\ alloc = FIRST_REF
    /\ current_alloc_section = 1
    /\ globals_count = 0
    /\ pdf = <<>>
    /\ references = <<>>
    /\ chunks = <<>>

\* A PdfContext<()> without sub-contexts, and the trees of contexts the
\* constructor may leave behind: the root, with or without a color-font
\* sub-context and a pattern sub-context.
Leaf == [color_fonts |-> <<>>, patterns |-> <<>>]

ContextTrees ==
    {[color_fonts |-> cf, patterns |-> pat] : cf, pat \in {<<>>, <<Leaf>>}}

\* GlobalRefs::new: the ids alloc, alloc + 1, ... in the order of the struct
\* expression (resources, page_tree, pages, oklab, d65_gray, srgb).
GlobalRefsNew(first, page_count) ==
    [resources |-> first,
     page_tree |-> first + 1,
     pages     |-> [i \in 1..page_count |-> first + 1 + i],
     oklab     |-> first + page_count + 2,
     d65_gray  |-> first + page_count + 3,
     srgb      |-> first + page_count + 4]

\* A faulty len: the pages are not counted.
GlobalRefsLenNoPages(globals) == GLOBALS_BESIDE_PAGES

\* GlobalRefs::len
GlobalRefsLen(globals) == Len(globals.pages) + GLOBALS_BESIDE_PAGES

\* The ids of a GlobalRefs.
GlobalIds(globals) ==
    {globals.resources, globals.page_tree, globals.oklab, globals.d65_gray,
     globals.srgb} \cup Range(globals.pages)

\* PdfContext::with_globals: the globals of the context, then those of the
\* pattern sub-context, then those of the color-font sub-context, each taken
\* from alloc.  The result is the tree with globals and the allocator after.
RECURSIVE WithGlobals(_, _, _)
WithGlobals(ctx, first, page_count) ==
    LET globals == GlobalRefsNew(first, page_count)
        a1 == first + GlobalRefsLen(globals)
        p  == IF ctx.patterns = <<>> THEN [ctx |-> <<>>, alloc |-> a1]
              ELSE LET r == WithGlobals(ctx.patterns[1], a1, page_count)
                   IN  [ctx |-> <<r.ctx>>, alloc |-> r.alloc]
        c  == IF ctx.color_fonts = <<>> THEN [ctx |-> <<>>, alloc |-> p.alloc]
              ELSE LET r == WithGlobals(ctx.color_fonts[1], p.alloc, page_count)
                   IN  [ctx |-> <<r.ctx>>, alloc |-> r.alloc]
    IN  [ctx   |-> [globals |-> globals, patterns |-> p.ctx, color_fonts |-> c.ctx],
         alloc |-> c.alloc]

\* construct::count_globals
RECURSIVE CountGlobals(_)
CountGlobals(ctx) ==
    GlobalRefsLen(ctx.globals)
        + (IF ctx.color_fonts = <<>> THEN 0 ELSE CountGlobals(ctx.color_fonts[1]))
        + (IF ctx.patterns = <<>> THEN 0 ELSE CountGlobals(ctx.patterns[1]))

\* A faulty traversal: the sub-contexts are not visited.
ContextsRootOnly(ctx) == <<ctx>>

\* The contexts in the order with_resource::write visits them: the context,
\* its color-font sub-context, its pattern sub-context.
RECURSIVE Contexts(_)
Contexts(ctx) ==
    <<ctx>>
        \o (IF ctx.color_fonts = <<>> THEN <<>> ELSE Contexts(ctx.color_fonts[1]))
        \o (IF ctx.patterns = <<>> THEN <<>> ELSE Contexts(ctx.patterns[1]))

\* A faulty section counter: it stays where it is.
NextSectionSame(section) == section

\* The section counter after a chunk was created:
\*     self.current_alloc_section += 1
NextSection(section) == section + 1

\* A faulty chain of steps: the images step is left out.
StepAfterSkipsImages(s) == IF s = 2 THEN 4 ELSE s + 1

\* The step (an index into Steps, from 0) that follows step s in the chain of
\* calls of pdf().
StepAfter(s) == s + 1

\* A faulty chunk start: every chunk starts at the same id.
ChunkStartFixed(section) == ALLOC_SECTION_SIZE

\* The first id of the chunk PdfChunk::new(section * ALLOC_SECTION_SIZE).
ChunkStart(section) == section * ALLOC_SECTION_SIZE

\* What a producer writes into its chunk.  input is, per object written, 0 or
\* the global id the object refers to.  The objects get the ids of successive
\* PdfChunk::alloc calls; each but the last refers to the next one.
ChunkObjects(start, input) ==
    [i \in 1..Len(input) |->
        [id   |-> start + i - 1,
         refs |-> (IF i < Len(input) THEN <<start + i>> ELSE <<>>)
                    \o (IF input[i] = 0 THEN <<>> ELSE <<input[i]>>)]]

\* The ids of a chunk in the order renumber_into meets them: of each object
\* its own id, then the references in it.
RECURSIVE ChunkIds(_, _)
ChunkIds(objs, i) ==
    IF i > Len(objs) THEN <<>>
    ELSE <<objs[i].id>> \o objs[i].refs \o ChunkIds(objs, i + 1)

\* The closure given to renumber_into, applied to r:
\*     if r.get() < globals_count { return r; }
\*     *mapping.entry(r).or_insert_with(|| alloc.bump())
\* st is [mapping, alloc]; the result is the new id and st after the call.
RenumberRef(r, count, st) ==
    IF r < count THEN [ref |-> r, st |-> st]
    ELSE IF r \in DOMAIN st.mapping THEN [ref |-> st.mapping[r], st |-> st]
    ELSE [ref |-> st.alloc,
          st  |-> [mapping |-> MapPut(st.mapping, r, st.alloc),
                   alloc   |-> st.alloc + 1]]

\* mapping and alloc after the closure was applied to ids[i], ids[i+1], ...
RECURSIVE RenumberIds(_, _, _, _)
RenumberIds(ids, i, count, st) ==
    IF i > Len(ids) THEN st
    ELSE RenumberIds(ids, i + 1, count, RenumberRef(ids[i], count, st).st)

\* chunk.renumber_into(pdf, closure): the renumbered objects, and mapping and
\* alloc after it.
RenumberInto(objs, count, st) ==
    LET after == RenumberIds(ChunkIds(objs, 1), 1, count, st)
        New(r) == RenumberRef(r, count, after).ref
    IN  [objs |-> [i \in 1..Len(objs) |->
                    [id   |-> New(objs[i].id),
                     refs |-> [k \in 1..Len(objs[i].refs) |-> New(objs[i].refs[k])]]],
         st   |-> after]

\* The history record of one merged chunk: its phase and section, the context
\* it was written for (the id of that context's resource dictionary; 0 for
\* the constructor, which is given the contexts before they have globals),
\* whether the builder held its GlobalRefs when the producer wrote the chunk,
\* the local ids it allocated with the final ids they became, and the (id
\* before, id after) pairs of its references to global ids.
ChunkRecord(phase, section, ctx, input, objs, merged) ==
    [phase   |-> phase,
     section |-> section,
     ctx     |-> ctx,
     globals |-> context # <<>>,
     locals  |-> [i \in 1..Len(objs) |-> objs[i].id],
     finals  |-> [i \in 1..Len(merged) |-> merged[i].id],
     grefs   |-> {<<input[i], merged[i].refs[Len(merged[i].refs)]>> :
                    i \in {j \in 1..Len(input) : input[j] # 0}}]

\* The inputs of one producer for a context: up to budget objects, each
\* referring to no global id (0), to the first one of the context or to the
\* last one.
ChunkInputs(ctx, budget) ==
    UNION {[1..n -> {0, ctx.globals.resources, ctx.globals.srgb}] : n \in 0..budget}

\* The inputs of the producers of one phase, one per context of ctxs[i..],
\* with at most budget objects in all.
RECURSIVE InputSeqs(_, _, _)
InputSeqs(ctxs, i, budget) ==
    IF i > Len(ctxs) THEN {<<>>}
    ELSE UNION {{<<input>> \o rest : rest \in InputSeqs(ctxs, i + 1, budget - Len(input))} :
                    input \in ChunkInputs(ctxs[i], budget)}

\* with_resource::write for the contexts ctxs[i..]: per context a new chunk
\* in a new section, the producer's objects, and the merge into pdf with the
\* phase's mapping.  acc is [section, st, pdf, output, chunks].
RECURSIVE WriteContexts(_, _, _, _, _, _)
WriteContexts(ctxs, inputs, i, count, phase, acc) ==
    IF i > Len(ctxs) THEN acc
    ELSE LET objs == ChunkObjects(ChunkStart(acc.section), inputs[i])
             m    == RenumberInto(objs, count, acc.st)
         IN  WriteContexts(ctxs, inputs, i + 1, count, phase,
                [section |-> NextSection(acc.section),
                 st      |-> m.st,
                 pdf     |-> acc.pdf \o m.objs,
                 output  |-> acc.output \o [k \in 1..Len(objs) |-> objs[k].id],
                 chunks  |-> Append(acc.chunks,
                                ChunkRecord(phase, acc.section, ctxs[i].globals.resources,
                                            inputs[i], objs, m.objs))])

\* The orders in which a HashMap with the keys S may be iterated.
RECURSIVE Orderings(_)
Orderings(S) ==
    IF S = {} THEN {<<>>}
    ELSE UNION {{<<x>> \o o : o \in Orderings(S \ {x})} : x \in S}

\* A faulty renumbering of the output: only the first pair of the iteration
\* is applied.
RenumberOutputFirstPair(output, mapping, order, i) ==
    IF order = <<>> THEN output
    ELSE [k \in 1..Len(output) |->
            IF output[k] = order[1] THEN mapping[order[1]] ELSE output[k]]

\* Renumber for Vec<Ref>, called for the pairs (old, mapping[old]) with old
\* running over order[i..]: every item equal to old becomes new.
RECURSIVE RenumberOutput(_, _, _, _)
RenumberOutput(output, mapping, order, i) ==
    IF i > Len(order) THEN output
    ELSE RenumberOutput(
            [k \in 1..Len(output) |->
                IF output[k] = order[i] THEN mapping[order[i]] ELSE output[k]],
            mapping, order, i + 1)

\* The objects of the write steps.  PageTree writes the page tree and the
\* pages of the root context; GlobalResources writes, for every context, its
\* resource dictionary (which names the saved references) and its three color
\* spaces; Catalog writes the catalog under a new id.
RECURSIVE Flatten(_, _)
Flatten(seqs, i) == IF i > Len(seqs) THEN <<>> ELSE seqs[i] \o Flatten(seqs, i + 1)

PageTreeObjects(ctx) ==
    <<[id |-> ctx.globals.page_tree, refs |-> ctx.globals.pages]>>
        \o [i \in 1..Len(ctx.globals.pages) |->
                [id   |-> ctx.globals.pages[i],
                 refs |-> <<ctx.globals.page_tree, ctx.globals.resources>>]]

ResourcesObjects(ctx, refs) ==
    <<[id   |-> ctx.globals.resources,
       refs |-> <<ctx.globals.oklab, ctx.globals.d65_gray, ctx.globals.srgb>>
                    \o Flatten(refs, 1)],
      [id |-> ctx.globals.oklab, refs |-> <<>>],
      [id |-> ctx.globals.d65_gray, refs |-> <<>>],
      [id |-> ctx.globals.srgb, refs |-> <<>>]>>

RECURSIVE GlobalResourcesObjects(_, _, _)
GlobalResourcesObjects(ctxs, refs, i) ==
    IF i > Len(ctxs) THEN <<>>
    ELSE ResourcesObjects(ctxs[i], refs) \o GlobalResourcesObjects(ctxs, refs, i + 1)

CatalogObjects(ctx, id) == <<[id |-> id, refs |-> <<ctx.globals.page_tree>>]>>

\* ========================================================================
\* PdfChunk (lib.rs)
\* ========================================================================

\* The largest section whose first id is an i32.
MaxSection == I32_MAX \div ALLOC_SECTION_SIZE

\* section * ALLOC_SECTION_SIZE overflows the i32.
StartOverflows(section) == section > MaxSection

\* The value of section * ALLOC_SECTION_SIZE in a build without overflow
\* checks, for a section up to twice MaxSection: the product is excess above
\* I32_MAX + 1 and wraps to i32::MIN + excess.
WrappedStart(section) ==
    IF ~StartOverflows(section) THEN ChunkStart(section)
    ELSE LET excess == (section - MaxSection - 1) * ALLOC_SECTION_SIZE
                        + ((ALLOC_SECTION_SIZE - 1)
                            - (I32_MAX - MaxSection * ALLOC_SECTION_SIZE))
         IN  (excess - I32_MAX) - 1

\* A faulty bump: the allocator stays where it is.
RefBumpStuck(r) == [ret |-> r, next |-> r]

\* Ref::bump, as PdfChunk::alloc uses it: the current id is returned and the
\* allocator moves to the next one.
RefBump(r) == [ret |-> r, next |-> r + 1]

\* No chunk is followed.
PdfChunksNone == [section |-> 1, list |-> <<>>, status |-> "ok", call |-> <<>>]

\* PdfChunk::new(section * ALLOC_SECTION_SIZE).  The product is an i32: when
\* it overflows, a build with overflow checks panics and one without wraps;
\* Ref::new panics for an id that is not positive.  section and count (the
\* alloc calls so far) are kept as history.
PdfChunkNew(section, build) ==
    LET overflow == StartOverflows(section)
        start    == WrappedStart(section)
    IN  IF (overflow /\ build = "debug") \/ start <= 0
        THEN [panic |-> TRUE]
        ELSE [panic |-> FALSE,
              chunk |-> [section |-> section, alloc |-> start, count |-> 0, last |-> 0]]

\* n >= 1 successive calls of PdfChunk::alloc: the first n - 1 move the
\* allocator by one each, the last is a bump of its own.  A bump of the
\* largest i32 panics (the sum overflows or wraps to an id Ref::new rejects).
PdfChunkAlloc(chunk, n) ==
    IF chunk.alloc > I32_MAX - n
    THEN [panic |-> TRUE]
    ELSE LET b == RefBump(chunk.alloc + (n - 1))
         IN  [panic |-> FALSE,
              first |-> chunk.alloc,
              last  |-> b.ret,
              chunk |-> [section |-> chunk.section, alloc |-> b.next,
                         count |-> chunk.count + n, last |-> b.ret]]

\* How many alloc calls a producer makes in one go: one, or as many as fill
\* a section but for one id.
AllocRuns == {1, ALLOC_SECTION_SIZE - 1}

\* No page worker runs.
WorkersNone == <<>>

\* The resource values a page may hold, in the order its worker meets them.
WorkerPages == UNION {[1..n -> 1..MaxFinds] : n \in 1..MaxFinds}

\* A page worker at the start of its page.  seen and got are history: whether
\* the value was in the table when the worker discovered it, and the index
\* insert returned for it.
WorkerNew(page) == [page |-> page, pos |-> 0, pc |-> "walk", seen |-> <<>>, got |-> <<>>]

\* A memoization that never finds an earlier call.
MemoizedNever(cache, content) == <<>>

\* #[comemo::memoize]: the result of an earlier call with an equal argument,
\* if there was one.
Memoized(cache, content) ==
    IF content \in DOMAIN cache THEN <<cache[content]>> ELSE <<>>

\* Deferred::new(move || deflate(&content)): the work is handed to a
\* background thread and has not run yet.
DeferredNew(content) == [content |-> content, state |-> "spawned", runs |-> 0]

\* deflate_deferred(content) in the state d: the handle returned is the place
\* of its task in d.tasks.  pending is history: whether a compression was
\* spawned and not done when the call was made.
DeflateDeferred(d, content) ==
    LET hit     == Memoized(d.cache, content)
        pending == \E t \in 1..Len(d.tasks) : d.tasks[t].state = "spawned"
    IN  IF hit # <<>>
        THEN [d EXCEPT !.requests = Append(@, [content |-> content, task |-> hit[1],
                                               pending |-> pending])]
        ELSE LET t == Len(d.tasks) + 1
             IN  [d EXCEPT !.tasks = Append(@, DeferredNew(content)),
                           !.cache = MapPut(@, content, t),
                           !.requests = Append(@, [content |-> content, task |-> t,
                                                   pending |-> pending])]

\* No PdfBuilder value is followed.
BuilderNone == [G |-> "none", calls |-> <<>>]

\* No phase is followed on its own.
MergeNone == [first |-> 0, bulk |-> <<>>]

\* No source is being evaluated.
EvaluatorNone == <<>>

\* No expression is being evaluated.
MachineNone == <<>>

\* No compression was asked for.
DeferredNone ==
    [phase |-> "construct", cache |-> EmptyMap, tasks |-> <<>>,
     requests |-> <<>>, waits |-> <<>>]

Init ==
    /\ remapper = RemapperNew
    /\ rm_call = <<>>
    /\ rm_first = <<>>
    /\ color_fonts = ColorFontMapNew
    /\ cf_call = <<>>
    /\ cf_first = EmptyMap
    /\ resources = <<>>
    /\ type3 = NotWritten
    /\ pdf_chunks = PdfChunksNone
    /\ workers = WorkersNone
    /\ deferred = DeferredNone
    /\ builder = BuilderNone
    /\ merge = MergeNone
    /\ evaluator = EvaluatorNone
    /\ machine = MachineNone
    /\ PdfBuilderNew(1)

\* One call of insert(item).
Insert(item) ==
    LET res == RemapperInsert(remapper, item)
    IN  /\ remapper' = res.rm
        /\ rm_call' = <<[item |-> item, ret |-> res.ret]>>
        /\ rm_first' = IF item \in Range(rm_first) THEN rm_first
                       ELSE Append(rm_first, item)
        /\ UNCHANGED <<cf_vars, t3_vars, pb_vars, ck_vars, wk_vars, df_vars, ts_vars, mg_vars, ev_vars,
                   vm_vars>>

RmNext == \E item \in Keys : Insert(item)

SpecRemapper == Init /\ [][RmNext]_vars

\* A faulty get: the images of the glyph's frame are registered in the
\* table of the context that owns the map as well.
GetIntoParent(font, gid) ==
    LET res == ColorFontMapGet(color_fonts, font, gid)
    IN  /\ color_fonts.resources.reference = <<>>
        /\ color_fonts' = res.cfm
        /\ cf_call' = <<[font |-> font, gid |-> gid, ret |-> res.ret]>>
        /\ cf_first' = IF <<font, gid>> \in DOMAIN cf_first THEN cf_first
                       ELSE MapPut(cf_first, <<font, gid>>, res.ret)
        /\ remapper' = RegisterImages([images |-> remapper],
                                      FrameImages(font, gid), 1).images
        /\ UNCHANGED <<rm_call, rm_first>>
        /\ UNCHANGED <<t3_vars, pb_vars, ck_vars, wk_vars, df_vars, ts_vars, mg_vars, ev_vars,
                   vm_vars>>

\* One call of get(font, gid) on the map, a ColorFontMap<()>.
Get(font, gid) ==
    LET res == ColorFontMapGet(color_fonts, font, gid)
    IN  /\ color_fonts.resources.reference = <<>>
        /\ color_fonts' = res.cfm
        /\ cf_call' = <<[font |-> font, gid |-> gid, ret |-> res.ret]>>
        /\ cf_first' = IF <<font, gid>> \in DOMAIN cf_first THEN cf_first
                       ELSE MapPut(cf_first, <<font, gid>>, res.ret)
        /\ UNCHANGED <<rm_vars, t3_vars, pb_vars, ck_vars, wk_vars, df_vars, ts_vars, mg_vars, ev_vars,
                   vm_vars>>

CfNext == \E font \in Fonts : \E gid \in GidInputs(color_fonts, font) : Get(font, gid)

SpecColorFont == Init /\ [][CfNext]_vars

\* with_refs(refs) on the map: it consumes the ColorFontMap<()> and leaves a
\* ColorFontMap<Ref>, which has no get.
WithRefs ==
    /\ color_fonts.resources.reference = <<>>
    /\ color_fonts' = ColorFontMapWithRefs(color_fonts, FIRST_REF)
    /\ UNCHANGED <<cf_call, cf_first>>
    /\ UNCHANGED <<rm_vars, t3_vars, pb_vars, ck_vars, wk_vars, df_vars, ts_vars, mg_vars, ev_vars,
                   vm_vars>>

\* The calls on a map up to and including with_refs.
WrNext == CfNext \/ WithRefs

SpecWithRefs == Init /\ [][WrNext]_vars

\* ------------------------------------------------------------------------
\* A context and the color-font map it owns: the walk registers images in the
\* context's own table (remapper) and records color glyphs of the font with
\* the small repertoire in the map.

\* context.images.insert(item)
InsertImage(item) == Insert(item)

\* context.color_fonts.get(font, gid) for a glyph of font 2
GetGlyph(gid) == Get(2, gid)

NsNext ==
    \/ \E item \in Keys : InsertImage(item)
    \/ \E gid \in GidInputs(color_fonts, 2) : GetGlyph(gid)

SpecNested == Init /\ [][NsNext]_vars

\* ------------------------------------------------------------------------
\* write_color_fonts applied to the resources of a document.

\* The numbers of glyphs font 1 may have when the pages are done: few, or
\* about one slice.
GlyphCounts == (0..MaxSmall) \cup ((SLICE_SIZE - 1)..MaxGlyphs)

\* What the document recorded as Unicode text for the color glyphs of a font
\* with the glyph ids gids:
\*   "text":    every glyph id has a text;
\*   "lacking": the set has no entry for the odd glyph ids;
\*   "empty":   the odd glyph ids have the empty text.
GlyphSet(gids, mode) ==
    [g \in {x \in gids : mode # "lacking" \/ x % 2 = 0} |->
        IF mode = "empty" /\ g % 2 = 1 THEN <<>> ELSE <<g>>]

\* The glyph sets of a context: one per font of its color-font map, or, in
\* mode "noset", none at all.
GlyphSets(cfm, mode) ==
    IF mode = "noset" THEN EmptyMap
    ELSE [font \in DOMAIN cfm.map.vals |-> GlyphSet(RecordedGids(cfm, font), mode)]

\* A Resources with the color-font map cfm (None when the map is empty).
ResourcesOf(cfm, mode) ==
    [color_fonts |-> IF cfm.map.keys = <<>> THEN <<>> ELSE <<cfm>>,
     glyph_sets  |-> GlyphSets(cfm, mode)]

\* The Resources res as a node of the tree: sub is the place in the tree of
\* the Resources its color-font map owns (color_fonts.resources), 0 when that
\* one recorded nothing.
WithSub(res, sub) ==
    [color_fonts |-> res.color_fonts, glyph_sets |-> res.glyph_sets, sub |-> sub]

\* The root map of a document: n1 glyphs of font 1 and n2 of font 2, font 2
\* first when second_first.
RootMap(n1, n2, reversed, second_first) ==
    IF second_first
    THEN RecordAll(RecordAll(ColorFontMapNew, 2, GidSeq(n2, FALSE)),
                   1, GidSeq(n1, reversed))
    ELSE RecordAll(RecordAll(ColorFontMapNew, 1, GidSeq(n1, reversed)),
                   2, GidSeq(n2, FALSE))

\* The pages are done: the root context and one nested context (the one of
\* the root's color-font map, or the one of its patterns) hold the color
\* glyphs the walk recorded with ColorFontMap::get.
T3Init ==
    /\ remapper = RemapperNew
    /\ rm_call = <<>>
    /\ rm_first = <<>>
    /\ color_fonts = ColorFontMapNew
    /\ cf_call = <<>>
    /\ cf_first = EmptyMap
    /\ type3 = NotWritten
    /\ pdf_chunks = PdfChunksNone
    /\ workers = WorkersNone
    /\ deferred = DeferredNone
    /\ builder = BuilderNone
    /\ merge = MergeNone
    /\ evaluator = EvaluatorNone
    /\ machine = MachineNone
    /\ PdfBuilderNew(1)
    /\ \E n1 \in GlyphCounts, n2 \in 0..MaxSmall, nn \in 0..MaxNested,
          fn \in Fonts, reversed \in BOOLEAN, second_first \in BOOLEAN,
          mode \in {"text", "lacking", "empty", "noset"},
          kind \in {"color_fonts", "patterns"} :
            LET root   == ResourcesOf(RootMap(n1, n2, reversed, second_first), mode)
                nested == ResourcesOf(RecordAll(ColorFontMapNew, fn, GidSeq(nn, FALSE)),
                                      mode)
            IN  resources =
                    <<WithSub(root, IF kind = "color_fonts" /\ root.color_fonts # <<>>
                                    THEN 2 ELSE 0),
                      WithSub(nested, 0)>>

\* One run of write_color_fonts, in a build with ("debug") or without
\* ("release") overflow checks.
WriteFonts(build) ==
    /\ type3.status = "none"
    /\ type3' = WriteColorFonts(resources, build)
    /\ UNCHANGED <<rm_vars, cf_vars, resources, pb_vars, ck_vars, wk_vars, df_vars, ts_vars, mg_vars, ev_vars,
                   vm_vars>>

T3Next == \E build \in {"debug", "release"} : WriteFonts(build)

SpecType3 == T3Init /\ [][T3Next]_vars

\* ------------------------------------------------------------------------
\* The pipeline of pdf().

PbInit ==
    /\ remapper = RemapperNew
    /\ rm_call = <<>>
    /\ rm_first = <<>>
    /\ color_fonts = ColorFontMapNew
    /\ cf_call = <<>>
    /\ cf_first = EmptyMap
    /\ resources = <<>>
    /\ type3 = NotWritten
    /\ pdf_chunks = PdfChunksNone
    /\ workers = WorkersNone
    /\ deferred = DeferredNone
    /\ builder = BuilderNone
    /\ merge = MergeNone
    /\ evaluator = EvaluatorNone
    /\ machine = MachineNone
    /\ PdfBuilderNew(MaxPages)

\* PdfBuilder::construct(Pages): the constructor fills a chunk and leaves the
\* tree of contexts, the globals are allocated, and the chunk is merged.
Construct ==
    /\ step = 0
    /\ \E tree \in ContextTrees, n \in 0..MaxObjs :
        LET section == current_alloc_section
            input   == [i \in 1..n |-> 0]
            objs    == ChunkObjects(ChunkStart(section), input)
            new_ctx == WithGlobals(tree, alloc, document.pages)
            count   == CountGlobals(new_ctx.ctx)
            m       == RenumberInto(objs, count,
                                    [mapping |-> EmptyMap, alloc |-> new_ctx.alloc])
        IN  /\ current_alloc_section' = section + 1
            /\ context' = <<new_ctx.ctx>>
            /\ globals_count' = count
            /\ pdf' = pdf \o m.objs
            /\ alloc' = m.st.alloc
            /\ chunks' = Append(chunks,
                                ChunkRecord(1, section, 0, input, objs, m.objs))
    /\ step' = StepAfter(step)
    /\ UNCHANGED <<document, references>>
    /\ UNCHANGED <<rm_vars, cf_vars, t3_vars, ck_vars, wk_vars, df_vars, ts_vars, mg_vars, ev_vars,
                   vm_vars>>

\* PdfBuilder::with_resource for the resource kind of the current step.
WithResource ==
    /\ step \in 1..7
    /\ LET ctxs == Contexts(context[1])
       IN  \E inputs \in InputSeqs(ctxs, 1, MaxObjs - Len(pdf)) :
            LET done == WriteContexts(ctxs, inputs, 1, globals_count, step + 1,
                            [section |-> current_alloc_section,
                             st      |-> [mapping |-> EmptyMap, alloc |-> alloc],
                             pdf     |-> pdf,
                             output  |-> <<>>,
                             chunks  |-> chunks])
            IN  /\ current_alloc_section' = done.section
                /\ alloc' = done.st.alloc
                /\ pdf' = done.pdf
                /\ chunks' = done.chunks
                /\ \E order \in Orderings(DOMAIN done.st.mapping) :
                        references' =
                            Append(references,
                                   RenumberOutput(done.output, done.st.mapping, order, 1))
    /\ step' = StepAfter(step)
    /\ UNCHANGED <<document, context, globals_count>>
    /\ UNCHANGED <<rm_vars, cf_vars, t3_vars, ck_vars, wk_vars, df_vars, ts_vars, mg_vars, ev_vars,
                   vm_vars>>

\* PdfBuilder::write for PageTree, GlobalResources and Catalog.
Write ==
    /\ step \in 8..10
    /\ LET root == context[1]
       IN  /\ pdf' = pdf \o
                (CASE step = 8  -> PageTreeObjects(root)
                   [] step = 9  -> GlobalResourcesObjects(Contexts(root), references, 1)
                   [] step = 10 -> CatalogObjects(root, alloc))
           /\ alloc' = IF step = 10 THEN alloc + 1 ELSE alloc
    /\ step' = StepAfter(step)
    /\ UNCHANGED <<document, context, current_alloc_section, globals_count,
                   references, chunks>>
    /\ UNCHANGED <<rm_vars, cf_vars, t3_vars, ck_vars, wk_vars, df_vars, ts_vars, mg_vars, ev_vars,
                   vm_vars>>

\* PdfBuilder::export
Export ==
    /\ step = 11
    /\ step' = StepAfter(step)
    /\ UNCHANGED <<document, context, alloc, current_alloc_section,
                   globals_count, pdf, references, chunks>>
    /\ UNCHANGED <<rm_vars, cf_vars, t3_vars, ck_vars, wk_vars, df_vars, ts_vars, mg_vars, ev_vars,
                   vm_vars>>

Next == Construct \/ WithResource \/ Write \/ Export

Spec == PbInit /\ [][Next]_vars

\* ------------------------------------------------------------------------
\* The chunks of a phase and their local allocators.

\* The section counter is at 1, or at the last section whose ids fit an i32
\* (after the chunks of the steps and contexts before).
ChInit ==
    /\ remapper = RemapperNew
    /\ rm_call = <<>>
    /\ rm_first = <<>>
    /\ color_fonts = ColorFontMapNew
    /\ cf_call = <<>>
    /\ cf_first = EmptyMap
    /\ resources = <<>>
    /\ type3 = NotWritten
    /\ PdfBuilderNew(1)
    /\ workers = WorkersNone
    /\ deferred = DeferredNone
    /\ builder = BuilderNone
    /\ merge = MergeNone
    /\ evaluator = EvaluatorNone
    /\ machine = MachineNone
    /\ \E section \in {1, MaxSection} :
        pdf_chunks = [section |-> section, list |-> <<>>, status |-> "ok",
                      call |-> <<>>]

\* let mut chunk = PdfChunk::new(current_alloc_section * ALLOC_SECTION_SIZE);
\* current_alloc_section += 1;
NewChunk(build) ==
    /\ pdf_chunks.status = "ok"
    /\ Len(pdf_chunks.list) < MaxChunks
    /\ LET new == PdfChunkNew(pdf_chunks.section, build)
       IN  pdf_chunks' =
            IF new.panic
            THEN [pdf_chunks EXCEPT !.status = "panic", !.call = <<>>]
            ELSE [section |-> NextSection(pdf_chunks.section),
                  list    |-> Append(pdf_chunks.list, new.chunk),
                  status  |-> "ok",
                  call    |-> <<>>]
    /\ UNCHANGED <<rm_vars, cf_vars, t3_vars, pb_vars, wk_vars, df_vars, ts_vars, mg_vars, ev_vars,
                   vm_vars>>

\* The producer of chunk c calls chunk.alloc() n times.
ChunkAlloc(c, n) ==
    /\ pdf_chunks.status = "ok"
    /\ c \in 1..Len(pdf_chunks.list)
    /\ LET chunk == pdf_chunks.list[c]
       IN  /\ chunk.count + n <= ALLOC_SECTION_SIZE - 1 + MaxExtra
           /\ n = 1 => (chunk.count < MaxExtra \/ chunk.count >= ALLOC_SECTION_SIZE - 1)
           /\ LET res == PdfChunkAlloc(chunk, n)
              IN  pdf_chunks' =
                    IF res.panic
                    THEN [pdf_chunks EXCEPT !.status = "panic", !.call = <<>>]
                    ELSE [pdf_chunks EXCEPT
                            !.list[c] = res.chunk,
                            !.call = <<[chunk |-> c, n |-> n,
                                        first |-> res.first, last |-> res.last]>>]
    /\ UNCHANGED <<rm_vars, cf_vars, t3_vars, pb_vars, wk_vars, df_vars, ts_vars, mg_vars, ev_vars,
                   vm_vars>>

ChNext ==
    \/ \E build \in {"debug", "release"} : NewChunk(build)
    \/ \E c \in 1..MaxChunks, n \in AllocRuns : ChunkAlloc(c, n)

SpecChunk == ChInit /\ [][ChNext]_vars

\* ------------------------------------------------------------------------
\* The chunks of a large document.  The tree of contexts is followed by its
\* number of contexts alone: with_globals gives every context page_count + 5
\* ids, count_globals adds them up, and every with_resource step makes one
\* chunk per context.

\* The page counts of the documents: few pages, or as many as make the
\* globals of one context reach the first id of section 1.
PageCounts ==
    {0, 1, ALLOC_SECTION_SIZE - GLOBALS_BESIDE_PAGES,
     ALLOC_SECTION_SIZE - GLOBALS_BESIDE_PAGES + 1}

\* The numbers of contexts of the trees: those of ContextTrees, and the
\* smallest one with which the seven with_resource steps need more sections
\* than MaxSection.
ContextCounts == {1, 2, 3, (MaxSection \div 7) + 1}

\* The builder in construct, the chunk not yet made, or (for the large tree)
\* in the with_resource step that reaches the section MaxSection.
ThInit ==
    /\ remapper = RemapperNew
    /\ rm_call = <<>>
    /\ rm_first = <<>>
    /\ color_fonts = ColorFontMapNew
    /\ cf_call = <<>>
    /\ cf_first = EmptyMap
    /\ resources = <<>>
    /\ type3 = NotWritten
    /\ workers = WorkersNone
    /\ deferred = DeferredNone
    /\ builder = BuilderNone
    /\ merge = MergeNone
    /\ evaluator = EvaluatorNone
    /\ machine = MachineNone
    /\ step = 0
    /\ context = <<>>
    /\ pdf = <<>>
    /\ references = <<>>
    /\ chunks = <<>>
    /\ current_alloc_section = 1
    /\ \E page_count \in PageCounts, contexts \in ContextCounts :
        /\ document = [pages |-> page_count]
        /\ globals_count = contexts * (page_count + GLOBALS_BESIDE_PAGES)
        /\ alloc = FIRST_REF + contexts * (page_count + GLOBALS_BESIDE_PAGES)
        /\ pdf_chunks = [section |-> IF contexts <= 3 THEN 1 ELSE MaxSection,
                         list |-> <<>>, status |-> "ok", call |-> <<>>]

SpecThreshold == ThInit /\ [][ChNext]_vars

\* ------------------------------------------------------------------------
\* Two page workers that share one Remapper.

WkInit ==
    /\ remapper = RemapperNew
    /\ rm_call = <<>>
    /\ rm_first = <<>>
    /\ color_fonts = ColorFontMapNew
    /\ cf_call = <<>>
    /\ cf_first = EmptyMap
    /\ resources = <<>>
    /\ type3 = NotWritten
    /\ PdfBuilderNew(1)
    /\ pdf_chunks = PdfChunksNone
    /\ deferred = DeferredNone
    /\ builder = BuilderNone
    /\ merge = MergeNone
    /\ evaluator = EvaluatorNone
    /\ machine = MachineNone
    /\ \E p1, p2 \in WorkerPages : workers = <<WorkerNew(p1), WorkerNew(p2)>>

\* Worker w meets the next resource of its page and builds its value.
Discover(w) ==
    /\ workers[w].pc = "walk"
    /\ workers[w].pos < Len(workers[w].page)
    /\ workers' = [workers EXCEPT
                    ![w].pc = "found",
                    ![w].seen = Append(@, workers[w].page[workers[w].pos + 1]
                                            \in DOMAIN remapper.to_pdf)]
    /\ UNCHANGED <<rm_vars, cf_vars, t3_vars, pb_vars, ck_vars, df_vars, ts_vars, mg_vars, ev_vars,
                   vm_vars>>

\* Worker w inserts the value it found: one call of insert(&mut self, item),
\* which has the Remapper to itself.
WorkerInsert(w) ==
    /\ workers[w].pc = "found"
    /\ LET item == workers[w].page[workers[w].pos + 1]
           res  == RemapperInsert(remapper, item)
       IN  /\ remapper' = res.rm
           /\ rm_call' = <<[item |-> item, ret |-> res.ret]>>
           /\ rm_first' = IF item \in Range(rm_first) THEN rm_first
                          ELSE Append(rm_first, item)
           /\ workers' = [workers EXCEPT
                            ![w].pc = "walk",
                            ![w].pos = @ + 1,
                            ![w].got = Append(@, res.ret)]
    /\ UNCHANGED <<cf_vars, t3_vars, pb_vars, ck_vars, df_vars, ts_vars, mg_vars, ev_vars,
                   vm_vars>>

WkNext == \E w \in 1..2 : Discover(w) \/ WorkerInsert(w)

SpecWorkers == WkInit /\ [][WkNext]_vars

\* ------------------------------------------------------------------------
\* Deferred compression of content streams.

DfInit ==
    /\ remapper = RemapperNew
    /\ rm_call = <<>>
    /\ rm_first = <<>>
    /\ color_fonts = ColorFontMapNew
    /\ cf_call = <<>>
    /\ cf_first = EmptyMap
    /\ resources = <<>>
    /\ type3 = NotWritten
    /\ PdfBuilderNew(1)
    /\ pdf_chunks = PdfChunksNone
    /\ workers = WorkersNone
    /\ deferred = DeferredNone
    /\ builder = BuilderNone
    /\ merge = MergeNone
    /\ evaluator = EvaluatorNone
    /\ machine = MachineNone

\* The walk of construct encodes a content stream and asks for its
\* compression.
Request(content) ==
    /\ deferred.phase = "construct"
    /\ Len(deferred.requests) < MaxRequests
    /\ deferred' = DeflateDeferred(deferred, content)
    /\ UNCHANGED <<rm_vars, cf_vars, t3_vars, pb_vars, ck_vars, wk_vars, ts_vars, mg_vars, ev_vars,
                   vm_vars>>

\* The background thread runs deflate for task t.
Compress(t) ==
    /\ t \in 1..Len(deferred.tasks)
    /\ deferred.tasks[t].state = "spawned"
    /\ deferred' = [deferred EXCEPT !.tasks[t].state = "done",
                                    !.tasks[t].runs = @ + 1]
    /\ UNCHANGED <<rm_vars, cf_vars, t3_vars, pb_vars, ck_vars, wk_vars, ts_vars, mg_vars, ev_vars,
                   vm_vars>>

\* construct is over; the with_resource steps begin.
EndWalk ==
    /\ deferred.phase = "construct"
    /\ deferred' = [deferred EXCEPT !.phase = "write"]
    /\ UNCHANGED <<rm_vars, cf_vars, t3_vars, pb_vars, ck_vars, wk_vars, ts_vars, mg_vars, ev_vars,
                   vm_vars>>

\* write_color_fonts writes the next stream:
\*     chunk.stream(instructions_stream_ref, color_glyph.instructions.content.wait())
\* wait returns once the task is done.
Wait ==
    /\ deferred.phase = "write"
    /\ Len(deferred.waits) < Len(deferred.requests)
    /\ LET r == Len(deferred.waits) + 1
           t == deferred.requests[r].task
       IN  /\ deferred.tasks[t].state = "done"
           /\ deferred' = [deferred EXCEPT
                            !.waits = Append(@, [request |-> r, task |-> t,
                                                 phase |-> deferred.phase])]
    /\ UNCHANGED <<rm_vars, cf_vars, t3_vars, pb_vars, ck_vars, wk_vars, ts_vars, mg_vars, ev_vars,
                   vm_vars>>

DfNext ==
    \/ \E content \in 1..MaxContents : Request(content)
    \/ \E t \in 1..MaxRequests : Compress(t)
    \/ EndWalk
    \/ Wait

SpecDeferred == DfInit /\ [][DfNext]_vars

\* ------------------------------------------------------------------------
\* The calls the types of PdfBuilder accept.  new and construct are methods
\* of PdfBuilder<'a, ()>; with_resource, write and export are methods of
\* PdfBuilder<'a, GlobalRefs>.  Every method takes the builder by value:
\* construct returns a PdfBuilder<'a, GlobalRefs>, with_resource and write
\* return Self, export returns the bytes.  What the calls do to the builder
\* is followed in Spec for the chain of pdf().

\* PdfBuilder::new(document)
TsInit ==
    /\ remapper = RemapperNew
    /\ rm_call = <<>>
    /\ rm_first = <<>>
    /\ color_fonts = ColorFontMapNew
    /\ cf_call = <<>>
    /\ cf_first = EmptyMap
    /\ resources = <<>>
    /\ type3 = NotWritten
    /\ PdfBuilderNew(1)
    /\ pdf_chunks = PdfChunksNone
    /\ workers = WorkersNone
    /\ deferred = DeferredNone
    /\ merge = MergeNone
    /\ evaluator = EvaluatorNone
    /\ machine = MachineNone
    /\ builder = [G |-> "()", calls |-> <<>>]

\* The builder after a call of method name that leaves a builder of type
\* parameter after.
Called(b, name, after) == [G |-> after, calls |-> Append(b.calls, name)]

\* impl<'a> PdfBuilder<'a, ()>:
\*     fn construct(mut self, constructor) -> PdfBuilder<'a, GlobalRefs>
CallConstruct ==
    /\ builder.G = "()"
    /\ Len(builder.calls) < MaxCalls
    /\ builder' = Called(builder, "construct", "GlobalRefs")
    /\ UNCHANGED <<rm_vars, cf_vars, t3_vars, pb_vars, ck_vars, wk_vars, df_vars,
                   mg_vars, ev_vars,
                   vm_vars>>

\* impl<'a> PdfBuilder<'a, GlobalRefs>:
\*     fn with_resource<R: PdfResource>(mut self, resource: R) -> Self
CallWithResource ==
    /\ builder.G = "GlobalRefs"
    /\ Len(builder.calls) < MaxCalls
    /\ builder' = Called(builder, "with_resource", builder.G)
    /\ UNCHANGED <<rm_vars, cf_vars, t3_vars, pb_vars, ck_vars, wk_vars, df_vars,
                   mg_vars, ev_vars,
                   vm_vars>>

\*     fn write(mut self, writer: impl PdfWriter) -> Self
CallWrite ==
    /\ builder.G = "GlobalRefs"
    /\ Len(builder.calls) < MaxCalls
    /\ builder' = Called(builder, "write", builder.G)
    /\ UNCHANGED <<rm_vars, cf_vars, t3_vars, pb_vars, ck_vars, wk_vars, df_vars,
                   mg_vars, ev_vars,
                   vm_vars>>

\*     fn export(self) -> Vec<u8>
CallExport ==
    /\ builder.G = "GlobalRefs"
    /\ Len(builder.calls) < MaxCalls
    /\ builder' = Called(builder, "export", "moved")
    /\ UNCHANGED <<rm_vars, cf_vars, t3_vars, pb_vars, ck_vars, wk_vars, df_vars,
                   mg_vars, ev_vars,
                   vm_vars>>

TsNext == CallConstruct \/ CallWithResource \/ CallWrite \/ CallExport

SpecBuilder == TsInit /\ [][TsNext]_vars

\* ------------------------------------------------------------------------
\* The with_resource phases of a document whose constructor may have written
\* a whole section of objects.  The builder is followed from the end of
\* construct; pdf and chunks list what is merged from there on, and of a
\* chunk that fills its section only the size and the saved ids are kept.

\* The numbers of objects the constructor may have written: none, one, or
\* as many as the section of its chunk has ids.
ConstructCounts == {0, 1, ALLOC_SECTION_SIZE}

\* The builder construct returns for a tree of contexts and a chunk of m
\* objects: the globals are the ids from FIRST_REF on, the m objects got the
\* ids after them, and the section counter was advanced once.
MgInit ==
    /\ remapper = RemapperNew
    /\ rm_call = <<>>
    /\ rm_first = <<>>
    /\ color_fonts = ColorFontMapNew
    /\ cf_call = <<>>
    /\ cf_first = EmptyMap
    /\ resources = <<>>
    /\ type3 = NotWritten
    /\ pdf_chunks = PdfChunksNone
    /\ workers = WorkersNone
    /\ deferred = DeferredNone
    /\ builder = BuilderNone
    /\ evaluator = EvaluatorNone
    /\ machine = MachineNone
    /\ step = 1
    /\ document = [pages |-> MaxPages]
    /\ pdf = <<>>
    /\ references = <<>>
    /\ chunks = <<>>
    /\ current_alloc_section = NextSection(1)
    /\ \E tree \in ContextTrees, m \in ConstructCounts :
        LET new_ctx == WithGlobals(tree, FIRST_REF, MaxPages)
        IN  /\ context = <<new_ctx.ctx>>
            /\ globals_count = CountGlobals(new_ctx.ctx)
            /\ alloc = new_ctx.alloc + m
            /\ merge = [first |-> new_ctx.alloc, bulk |-> <<>>]

\* The inputs of the producers of one phase, one per context of ctxs[i..],
\* with at most budget objects in all; each object refers to no id (0), to
\* the first global id of its context, or to an id of earlier.
RECURSIVE InputSeqsWith(_, _, _, _)
InputSeqsWith(ctxs, i, budget, earlier) ==
    IF i > Len(ctxs) THEN {<<>>}
    ELSE UNION {{<<input>> \o rest :
                    rest \in InputSeqsWith(ctxs, i + 1, budget - Len(input), earlier)} :
                input \in UNION {[1..n -> {0, ctxs[i].globals.resources} \cup earlier] :
                                    n \in 0..budget}}

\* PdfBuilder::with_resource, the producers being free to refer to the final
\* id the allocator issued last.  Two phases are followed.
MergePhase ==
    /\ step \in 1..2
    /\ LET ctxs    == Contexts(context[1])
           earlier == IF alloc > merge.first THEN {alloc - 1} ELSE {}
       IN  \E inputs \in InputSeqsWith(ctxs, 1, MaxObjs - Len(pdf), earlier) :
            LET done == WriteContexts(ctxs, inputs, 1, globals_count, step + 1,
                            [section |-> current_alloc_section,
                             st      |-> [mapping |-> EmptyMap, alloc |-> alloc],
                             pdf     |-> pdf,
                             output  |-> <<>>,
                             chunks  |-> chunks])
            IN  /\ current_alloc_section' = done.section
                /\ alloc' = done.st.alloc
                /\ pdf' = done.pdf
                /\ chunks' = done.chunks
                /\ \E order \in Orderings(DOMAIN done.st.mapping) :
                        references' =
                            Append(references,
                                   RenumberOutput(done.output, done.st.mapping, order, 1))
    /\ step' = StepAfter(step)
    /\ UNCHANGED <<document, context, globals_count>>
    /\ UNCHANGED <<rm_vars, cf_vars, t3_vars, ck_vars, wk_vars, df_vars, ts_vars,
                   mg_vars, ev_vars,
                   vm_vars>>

\* The final id of the local id old of a chunk that starts at start, whose
\* objects refer to each other only and are merged when the allocator is at
\* first: renumber_into meets the ids in allocation order, and the closure
\* gives them first, first + 1, ...
BulkNew(old, start, first) == first + (old - start)

\* The pairs of the mapping that can touch the saved id x: the pair of x, the
\* pair whose old id is the new id of x, and so on.
RECURSIVE ChainKeys(_, _, _, _)
ChainKeys(x, start, n, first) ==
    IF x < start \/ x >= start + n THEN {}
    ELSE {x} \cup ChainKeys(BulkNew(x, start, first), start, n, first)

\* The sizes of a chunk that fills its section, or all of it but one id.
BulkCounts == {ALLOC_SECTION_SIZE - 1, ALLOC_SECTION_SIZE}

\* PdfBuilder::with_resource when the producer writes n objects for the root
\* context and none for the sub-contexts, and saves the first id, the last
\* id or both: the chunks get their sections, the allocator issues n ids,
\* and every (old, new) pair of the mapping is applied to the saved ids, in
\* the order the HashMap is iterated.  Only the pairs that can touch a saved
\* id are listed.
MergeBulk ==
    /\ step \in 1..2
    /\ merge.bulk = <<>>
    /\ \E n \in BulkCounts :
        LET start == ChunkStart(current_alloc_section)
        IN  \E output \in {<<start>>, <<start + n - 1>>, <<start, start + n - 1>>} :
            LET keys    == UNION {ChainKeys(output[k], start, n, alloc) :
                                    k \in 1..Len(output)}
                mapping == [old \in keys |-> BulkNew(old, start, alloc)]
            IN  \E order \in Orderings(keys) :
                /\ references' =
                        Append(references, RenumberOutput(output, mapping, order, 1))
                /\ merge' = [merge EXCEPT !.bulk =
                                Append(@, [phase  |-> Len(references) + 1,
                                           start  |-> start,
                                           first  |-> alloc,
                                           count  |-> n,
                                           output |-> output])]
                /\ alloc' = alloc + n
    /\ current_alloc_section' = current_alloc_section + Len(Contexts(context[1]))
    /\ step' = StepAfter(step)
    /\ UNCHANGED <<document, context, globals_count, pdf, chunks>>
    /\ UNCHANGED <<rm_vars, cf_vars, t3_vars, ck_vars, wk_vars, df_vars, ts_vars,
                   ev_vars, vm_vars>>

MgNext == MergePhase \/ MergeBulk

SpecMerge == MgInit /\ [][MgNext]_vars

\* ------------------------------------------------------------------------
\* The ids defined by the objects of pdf, and the ids they refer to.
Defined == {pdf[i].id : i \in 1..Len(pdf)}

Referenced == UNION {Range(pdf[i].refs) : i \in 1..Len(pdf)}

\* The ids of the GlobalRefs of all contexts.
AllGlobalIds ==
    IF context = <<>> THEN {}
    ELSE UNION {GlobalIds(Contexts(context[1])[c].globals) :
                    c \in 1..Len(Contexts(context[1]))}

\* C1: in the output of pdf(), every object id that is referenced, from a
\* merged chunk or from an object of a write step, is defined exactly once:
\* no referenced id lacks a definition and no id is defined twice.
C1_DefinedOnce ==
    step = 12 =>
        /\ \A id \in Referenced : id \in Defined
        /\ \A i, j \in 1..Len(pdf) : i # j => pdf[i].id # pdf[j].id

\* C2: every id of the GlobalRefs of the root and of the nested contexts, the
\* last one allocated (whose number is globals_count) included, is mapped to
\* itself by the renumbering of every merge.
C2_GlobalsIdentity ==
    \A c \in 1..Len(chunks) : \A pair \in chunks[c].grefs :
        pair[1] \in AllGlobalIds => pair[2] = pair[1]

\* The part of C2 that the code keeps: the ids below globals_count.
C2_BelowThreshold ==
    \A c \in 1..Len(chunks) : \A pair \in chunks[c].grefs :
        pair[1] < globals_count => pair[2] = pair[1]

\* The local allocations of the run: (chunk, offset) pairs.
Allocations ==
    UNION {{<<c, i>> : i \in 1..Len(chunks[c].locals)} : c \in 1..Len(chunks)}

FinalOf(a) == chunks[a[1]].finals[a[2]]

RECURSIVE PhaseFinals(_, _)
PhaseFinals(phase, c) ==
    IF c > Len(chunks) THEN <<>>
    ELSE (IF chunks[c].phase = phase THEN chunks[c].finals ELSE <<>>)
            \o PhaseFinals(phase, c + 1)

\* The same for the seven with_resource phases at once: the k-th entry is
\* PhaseFinals(k + 1, 1), gathered in one pass over the chunks from c on.
RECURSIVE FinalsByPhase(_)
FinalsByPhase(c) ==
    IF c > Len(chunks) THEN [k \in 1..7 |-> <<>>]
    ELSE IF chunks[c].phase = 1 THEN FinalsByPhase(c + 1)
    ELSE [FinalsByPhase(c + 1) EXCEPT
            ![chunks[c].phase - 1] = chunks[c].finals \o @]

C12_SectionsDistinct ==
    /\ current_alloc_section = Len(chunks) + 1
    /\ \A c \in 1..Len(chunks) : chunks[c].section = c
    /\ Cardinality({ChunkStart(chunks[c].section) : c \in 1..Len(chunks)})
        = Len(chunks)

\* The construct chunk and the chunks of a phase with nested contexts exist.
C12_Witness ==
    /\ step >= 2
    /\ Len(chunks) >= 4

\* C17: the steps of pdf() happen in the order of Steps, each exactly once:
\* every transition moves to the next step; with_resource runs only after
\* construct merged its chunk and set up the globals; every resource phase has
\* saved its references, once, before the first write; nothing follows export.
C17_PhaseOrder ==
    /\ [][step' = step + 1 /\ step < Len(Steps)]_vars
    /\ [](step \in 0..Len(Steps))
    /\ [](step >= 1 => Len(chunks) >= 1 /\ context # <<>> /\ globals_count > 0)
    /\ [](step \in 1..8 => Len(references) = step - 1)
    /\ [](step >= 8 => Len(references) = 7)
    /\ [](step < 8 => \A c \in 1..Len(chunks) : chunks[c].phase <= step)
    /\ [][step >= 8 => chunks' = chunks /\ references' = references]_vars
    /\ [][step = 11 => pdf' = pdf]_vars

\* The run went through all steps.
C17_Witness == step = Len(Steps) /\ Len(references) = 7

\* C20: the GlobalRefs of every context hold page_count + 5 pairwise distinct
\* ids; globals_count is the number of ids given to the GlobalRefs of all
\* contexts, and these ids are exactly 1..globals_count.
C20_GlobalsCount ==
    step >= 1 =>
        /\ \A c \in 1..Len(Contexts(context[1])) :
            LET globals == Contexts(context[1])[c].globals
            IN  /\ Cardinality(GlobalIds(globals)) = document.pages + GLOBALS_BESIDE_PAGES
                /\ Len(globals.pages) = document.pages
                /\ \A i, j \in 1..Len(globals.pages) :
                        i # j => globals.pages[i] # globals.pages[j]
        /\ globals_count = Cardinality(AllGlobalIds)
        /\ globals_count = Len(Contexts(context[1])) * (document.pages + GLOBALS_BESIDE_PAGES)
        /\ AllGlobalIds = FIRST_REF..globals_count

\* The globals of a root with both sub-contexts were allocated.
C20_Witness ==
    /\ step >= 1
    /\ Len(Contexts(context[1])) = 3

\* ------------------------------------------------------------------------
\* C4: insert of a key already inserted returns the index first given to it
\* and leaves the table unchanged; insert of a new key returns the number of
\* distinct keys inserted before it; two distinct keys never share an index.
C4_InsertContract ==
    /\ [](\A a, b \in DOMAIN remapper.to_pdf :
            a # b => remapper.to_pdf[a] # remapper.to_pdf[b])
    /\ [][rm_call' # <<>> /\ rm_vars' # rm_vars =>
            LET item == rm_call'[1].item
                ret  == rm_call'[1].ret
            IN  IF item \in Range(rm_first)
                THEN /\ \E i \in 1..Len(rm_first) :
                            rm_first[i] = item /\ ret = i - 1
                     /\ remapper' = remapper
                ELSE ret = Len(rm_first)]_vars

\* A key has been inserted a second time after other keys went in.
C4_Witness ==
    /\ Len(rm_first) >= 3
    /\ rm_call # <<>>
    /\ rm_call[1].item = rm_first[2]
    /\ rm_call[1].ret = 1

\* C5: items() yields each distinct key exactly once, in order of first
\* insertion, and the key at position i is the key whose index is i.
C5_ItemsOrder ==
    LET items == RemapperItems(remapper)
    IN  /\ items = rm_first
        /\ \A i, j \in 1..Len(items) : i # j => items[i] # items[j]
        /\ DOMAIN remapper.to_pdf = Range(items)
        /\ \A i \in 1..Len(items) : remapper.to_pdf[items[i]] = i - 1

\* Three keys are in the table and one of them was inserted again.
C5_Witness ==
    /\ Len(RemapperItems(remapper)) >= 3
    /\ rm_call # <<>>
    /\ rm_call[1].ret < Len(rm_first) - 1

\* ------------------------------------------------------------------------
\* C6: once a (font, glyph id) pair has been recorded, every later get for it
\* returns the (slice id, position) of the first call, and adds no glyph and
\* no slice, whatever was recorded for other glyphs and fonts in between.
C6_GetIdempotent ==
    [][cf_call' # <<>> /\ cf_vars' # cf_vars =>
        LET c == cf_call'[1]
        IN  <<c.font, c.gid>> \in DOMAIN cf_first =>
                /\ c.ret = cf_first[<<c.font, c.gid>>]
                /\ color_fonts' = color_fonts]_vars

\* Font 1 has 257 glyphs, font 2 got its first glyph after them, and the
\* last call asked again for the 257th glyph of font 1.
C6_Witness ==
    /\ Len(GlyphsOf(color_fonts, 1)) = 257
    /\ Len(GlyphsOf(color_fonts, 2)) = 1
    /\ color_fonts.map.vals[2].slice_ids = <<2>>
    /\ cf_call # <<>>
    /\ cf_call[1].font = 1
    /\ cf_call[1].gid = GlyphsOf(color_fonts, 1)[257].gid
    /\ cf_call[1].ret = <<1, 0>>

\* The glyph ids recorded so far for font, by the history of calls.
FirstGids(font) == {k[2] : k \in {x \in DOMAIN cf_first : x[1] = font}}

CeilDiv(n, d) == (n + d - 1) \div d

\* C7: after n distinct glyph ids were recorded for a font, the font has
\* ceil(n/256) slice ids, every slice but the last holds 256 glyphs and the
\* last holds n - 256*(ceil(n/256)-1) >= 1 glyphs.
C7_SliceCount ==
    \A font \in Fonts :
        LET gids   == FirstGids(font)
            n      == Cardinality(gids)
            k      == CeilDiv(n, SLICE_SIZE)
            slices == IF font \in DOMAIN color_fonts.map.vals
                      THEN color_fonts.map.vals[font].slice_ids ELSE <<>>
            held(q) == Cardinality({g \in gids : cf_first[<<font, g>>][1] = slices[q]})
        IN  /\ Len(slices) = k
            /\ \A q \in 1..k :
                    held(q) = IF q < k THEN SLICE_SIZE ELSE n - SLICE_SIZE * (k - 1)
            /\ n > 0 => n - SLICE_SIZE * (k - 1) >= 1
            /\ n = 256 => k = 1
            /\ n = 257 => k = 2 /\ held(1) = 256 /\ held(2) = 1

\* Font 1 has 257 glyphs in two slices, and font 2 was recorded between the
\* first and the 257th of them.
C7_Witness ==
    /\ Len(GlyphsOf(color_fonts, 1)) = 257
    /\ color_fonts.map.vals[1].slice_ids = <<0, 2>>
    /\ 2 \in DOMAIN color_fonts.map.vals
    /\ color_fonts.map.vals[2].slice_ids = <<1>>

\* ------------------------------------------------------------------------
\* The color-font map of context c, and its fonts.
MapOf(c) == resources[c].color_fonts[1].map

FontsOf(c) == IF resources[c].color_fonts = <<>> THEN {} ELSE DOMAIN MapOf(c).vals

\* Every font with color glyphs has a glyph set in its context.
GlyphSetsPresent ==
    \A c \in 1..Len(resources) : FontsOf(c) \subseteq DOMAIN resources[c].glyph_sets

\* No font has color glyphs in two contexts.
FontsApart ==
    \A c, d \in 1..Len(resources) : c # d => FontsOf(c) \cap FontsOf(d) = {}

\* The Type3 fonts written for font.
Written(font) == {j \in 1..Len(type3.out) : type3.out[j].font = font}

\* C8: for a font with n recorded color glyphs, write_color_fonts emits
\* exactly ceil(n/256) Type3 fonts and never a font with zero glyphs.
C8_OneFontPerWindow ==
    (type3.status # "none" /\ GlyphSetsPresent /\ FontsApart) =>
        /\ type3.status = "done"
        /\ \A c \in 1..Len(resources) : \A font \in FontsOf(c) :
                Cardinality(Written(font))
                    = CeilDiv(Len(MapOf(c).vals[font].glyphs), SLICE_SIZE)
        /\ \A j \in 1..Len(type3.out) : type3.out[j].glyph_count > 0

\* C9: for every Type3 font written, FirstChar is 0, LastChar is the number
\* of glyphs of the slice minus 1 and lies in 0..255, and Widths has one
\* entry per glyph of the slice, in window order.
C9_CharRange ==
    type3.status = "done" =>
        \A j \in 1..Len(type3.out) :
            LET f      == type3.out[j]
                glyphs == MapOf(f.ctx).vals[f.font].glyphs
                start  == f.subfont * SLICE_SIZE
            IN  /\ f.FirstChar = 0
                /\ f.LastChar = f.glyph_count - 1
                /\ f.LastChar \in 0..255
                /\ Len(f.Widths) = f.glyph_count
                /\ \A i \in 1..f.glyph_count :
                        f.Widths[i] = Width(f.font, glyphs[start + i].gid)

\* No font has a number of glyphs that is a multiple of 256.
NoFullLastSlice ==
    \A c \in 1..Len(resources) : \A font \in FontsOf(c) :
        Len(MapOf(c).vals[font].glyphs) % SLICE_SIZE # 0

\* Glyph gid of font has no recorded Unicode text in context c.
NoText(c, font, gid) ==
    \/ font \notin DOMAIN resources[c].glyph_sets
    \/ gid \notin DOMAIN resources[c].glyph_sets[font]
    \/ resources[c].glyph_sets[font][gid] = <<>>

\* The slice written as type3.out[j] has its entries for every glyph, and
\* its ToUnicode CMap holds exactly the glyphs that have a text.
SliceEntries(j) ==
    LET f      == type3.out[j]
        glyphs == MapOf(f.ctx).vals[f.font].glyphs
        start  == f.subfont * SLICE_SIZE
    IN  /\ Len(f.CharProcs) = f.glyph_count
        /\ Len(f.Encoding) = f.glyph_count
        /\ Len(f.Widths) = f.glyph_count
        /\ \A i \in 1..f.glyph_count :
            LET gid == glyphs[start + i].gid
            IN  /\ f.CharProcs[i].name = i - 1
                /\ f.CharProcs[i].content = glyphs[start + i].instructions
                /\ f.Encoding[i] = i - 1
                /\ IF NoText(f.ctx, f.font, gid)
                   THEN (i - 1) \notin DOMAIN f.ToUnicode
                   ELSE /\ (i - 1) \in DOMAIN f.ToUnicode
                        /\ f.ToUnicode[i - 1] = resources[f.ctx].glyph_sets[f.font][gid]

\* C10: a glyph without recorded Unicode text (its font's glyph set lacks the
\* id, the text is empty, or the context has no glyph set for the font) is
\* left out of the ToUnicode CMap, the emission does not fail, and the glyph
\* keeps its CharProcs, Encoding and Widths entries.
C10_NoTextIsNoError ==
    (type3.status # "none" /\ NoFullLastSlice) =>
        /\ type3.status = "done"
        /\ \A c \in 1..Len(resources) : \A font \in FontsOf(c) :
                FontsApart => Written(font) # {}
        /\ \A j \in 1..Len(type3.out) : SliceEntries(j)

\* The part of C10 that the code keeps: when every font has a glyph set, a
\* glyph whose id is missing from it or has the empty text is left out of
\* ToUnicode only.
C10_WithGlyphSets ==
    (type3.status # "none" /\ NoFullLastSlice /\ GlyphSetsPresent) =>
        /\ type3.status = "done"
        /\ \A j \in 1..Len(type3.out) : SliceEntries(j)

\* ------------------------------------------------------------------------
\* The slices of the document: (context, font, place in slice_ids).
DocSlices ==
    UNION {UNION {{<<c, font, k>> :
                    k \in 1..Len(resources[c].color_fonts[1].map.vals[font].slice_ids)} :
                font \in DOMAIN resources[c].color_fonts[1].map.vals} :
            c \in {d \in 1..Len(resources) : resources[d].color_fonts # <<>>}}

SliceIdOf(sl) == resources[sl[1]].color_fonts[1].map.vals[sl[2]].slice_ids[sl[3]]

\* C15: no two slices of the document, of one font, of two fonts or of two
\* resource contexts, have the same slice id.
C15_SliceIdsUnique ==
    \A s1, s2 \in DocSlices : s1 # s2 => SliceIdOf(s1) # SliceIdOf(s2)

\* The slice ids of the map of SpecColorFont, over all fonts.
MapSliceIds ==
    UNION {Range(color_fonts.map.vals[font].slice_ids) :
            font \in DOMAIN color_fonts.map.vals}

\* The part of C15 that the code keeps, for one ColorFontMap: a get allocates
\* a slice id exactly when it records a new glyph at a position that is a
\* multiple of 256, the new id is above every id of the map, and the slice
\* ids of the map are pairwise distinct over all fonts.
C15_WithinMap ==
    /\ [](\A f, g \in DOMAIN color_fonts.map.vals :
            \A i \in 1..Len(color_fonts.map.vals[f].slice_ids) :
            \A j \in 1..Len(color_fonts.map.vals[g].slice_ids) :
                (f # g \/ i # j) =>
                    color_fonts.map.vals[f].slice_ids[i]
                        # color_fonts.map.vals[g].slice_ids[j])
    /\ [][\A font \in Fonts : \A gid \in GidInputs(color_fonts, font) :
            Get(font, gid) =>
                LET known == gid \in RecordedGids(color_fonts, font)
                    index == Len(GlyphsOf(color_fonts, font))
                    fresh == MapSliceIds' \ MapSliceIds
                IN  /\ (~known /\ index % SLICE_SIZE = 0)
                        <=> color_fonts'.total_slice_count = color_fonts.total_slice_count + 1
                    /\ color_fonts'.total_slice_count \in
                            {color_fonts.total_slice_count, color_fonts.total_slice_count + 1}
                    /\ Cardinality(fresh) = color_fonts'.total_slice_count
                                                - color_fonts.total_slice_count
                    /\ \A new \in fresh : \A old \in MapSliceIds : new > old]_vars

\* The Type3 fonts the resource dictionary d lists: those saved for the
\* (font, subfont) pairs of the slices of the color-font map of context d.
DictFonts(d) ==
    IF d \notin 1..Len(resources) \/ type3.status # "done" THEN {}
    ELSE IF resources[d].color_fonts = <<>> THEN {}
    ELSE {j \in 1..Len(type3.out) :
            /\ type3.out[j].font \in DOMAIN resources[d].color_fonts[1].map.vals
            /\ type3.out[j].subfont + 1
                \in 1..Len(resources[d].color_fonts[1].map.vals[type3.out[j].font].slice_ids)}

\* The fonts listed by dictionary d, directly or through the dictionaries of
\* the fonts it lists, to depth n.
RECURSIVE Listed(_, _)
Listed(d, n) ==
    IF n = 0 THEN {}
    ELSE DictFonts(d) \cup
         UNION {Listed(type3.out[j].Resources, n - 1) : j \in DictFonts(d)}

\* C16: no Type3 font written is listed, directly or through nested resource
\* dictionaries, in the /Resources dictionary it names.
C16_NoSelfReference ==
    type3.status = "done" =>
        \A j \in 1..Len(type3.out) :
            j \notin Listed(type3.out[j].Resources, Len(resources) + 1)

\* No font has color glyphs both in a context and in the sub-context of that
\* context's color-font map.
NoFontInOwnSubContext ==
    \A c \in 1..Len(resources) :
        resources[c].sub # 0 => FontsOf(c) \cap FontsOf(resources[c].sub) = {}

\* The part of C16 that the code keeps: without such a font no Type3 font is
\* listed in the dictionary it names.
C16_FontsApart ==
    (type3.status = "done" /\ NoFontInOwnSubContext) =>
        \A j \in 1..Len(type3.out) :
            j \notin Listed(type3.out[j].Resources, Len(resources) + 1)

\* ------------------------------------------------------------------------
\* C13: a chunk created for section s issues s*SECTION_SIZE, s*SECTION_SIZE+1,
\* ... : the k-th alloc() call returns s*SECTION_SIZE + k - 1, every call
\* returns an id above the one before, and no id is returned twice.
C13_ChunkAllocMonotone ==
    /\ [](\A c \in 1..Len(pdf_chunks.list) :
            LET chunk == pdf_chunks.list[c]
            IN  /\ chunk.alloc = chunk.section * ALLOC_SECTION_SIZE + chunk.count
                /\ chunk.count > 0 => chunk.last = chunk.alloc - 1)
    /\ [][\A c \in 1..Len(pdf_chunks.list) :
            (/\ Len(pdf_chunks'.list) >= c
             /\ pdf_chunks'.list[c].count > pdf_chunks.list[c].count) =>
                LET chunk == pdf_chunks.list[c]
                    call  == pdf_chunks'.call[1]
                IN  /\ call.chunk = c
                    /\ call.first = chunk.section * ALLOC_SECTION_SIZE + chunk.count
                    /\ call.first > chunk.last
                    /\ call.last = call.first + call.n - 1
                    /\ pdf_chunks'.list[c].alloc > call.last]_vars

\* A chunk was asked for an id three times.
C13_Witness ==
    /\ pdf_chunks.call # <<>>
    /\ \E c \in 1..Len(pdf_chunks.list) :
        /\ pdf_chunks.list[c].count = 3
        /\ pdf_chunks.list[c].last = pdf_chunks.list[c].section * ALLOC_SECTION_SIZE + 2

\* C14: a chunk that is asked for more than SECTION_SIZE ids makes the export
\* abort: as long as the export goes on, every id a chunk issued lies in the
\* chunk's own section and no id was issued by two chunks.
C14_OverflowAborts ==
    pdf_chunks.status = "ok" =>
        /\ \A c \in 1..Len(pdf_chunks.list) :
            LET chunk == pdf_chunks.list[c]
            IN  /\ chunk.count <= ALLOC_SECTION_SIZE
                /\ chunk.last - chunk.section * ALLOC_SECTION_SIZE < ALLOC_SECTION_SIZE
        /\ \A c, d \in 1..Len(pdf_chunks.list) :
            (c # d /\ pdf_chunks.list[c].count > 0 /\ pdf_chunks.list[d].count > 0) =>
                \/ pdf_chunks.list[c].last
                        < pdf_chunks.list[d].section * ALLOC_SECTION_SIZE
                \/ pdf_chunks.list[d].last
                        < pdf_chunks.list[c].section * ALLOC_SECTION_SIZE

\* The part of C14 that the code keeps: no chunk exists for a section whose
\* first id is beyond the i32 range, and no chunk holds an id beyond it; the
\* run has panicked instead.
C14_SectionCounterAborts ==
    /\ \A c \in 1..Len(pdf_chunks.list) :
        /\ pdf_chunks.list[c].section <= MaxSection
        /\ pdf_chunks.list[c].alloc \in 1..I32_MAX
    /\ pdf_chunks.section > MaxSection + 1 => pdf_chunks.status = "panic"

\* ------------------------------------------------------------------------
\* C18: when two page workers insert equal resource values into the same
\* Remapper, in every interleaving of their discoveries and inserts the table
\* has exactly one entry for the value and both workers got the same index.
C18_ConcurrentConverge ==
    \A v, w \in 1..Len(workers) :
        \A i \in 1..Len(workers[v].got) :
            LET item == workers[v].page[i]
            IN  /\ Cardinality({k \in 1..Len(remapper.to_items) :
                                    remapper.to_items[k] = item}) = 1
                /\ item \in DOMAIN remapper.to_pdf
                /\ remapper.to_pdf[item] = workers[v].got[i]
                /\ \A j \in 1..Len(workers[w].got) :
                        workers[w].page[j] = item => workers[w].got[j] = workers[v].got[i]

\* Both workers discovered the same value while it was not in the table, and
\* both have inserted it.
C18_Witness ==
    /\ Len(workers) = 2
    /\ \E i \in 1..Len(workers[1].got), j \in 1..Len(workers[2].got) :
        /\ workers[1].page[i] = workers[2].page[j]
        /\ ~workers[1].seen[i]
        /\ ~workers[2].seen[j]
        /\ workers[1].got[i] = workers[2].got[j]

\* ------------------------------------------------------------------------
\* C19: for any sequence of deflate_deferred requests, compression runs at
\* most once per distinct content, requests with equal content share one
\* result, a request neither waits for nor runs a compression (it can be
\* issued while compressions are pending), and results are awaited only after
\* the construct walk, when the bytes are written.
C19_DeferredOnce ==
    /\ [](\A t \in 1..Len(deferred.tasks) : deferred.tasks[t].runs <= 1)
    /\ [](\A t, u \in 1..Len(deferred.tasks) :
            t # u => deferred.tasks[t].content # deferred.tasks[u].content)
    /\ [](\A r, q \in 1..Len(deferred.requests) :
            /\ deferred.tasks[deferred.requests[r].task].content
                    = deferred.requests[r].content
            /\ deferred.requests[r].content = deferred.requests[q].content
                    => deferred.requests[r].task = deferred.requests[q].task)
    /\ [](\A w \in 1..Len(deferred.waits) :
            /\ deferred.waits[w].phase = "write"
            /\ deferred.tasks[deferred.waits[w].task].state = "done")
    /\ [](deferred.phase = "construct" => deferred.waits = <<>>)
    /\ []((deferred.phase = "construct" /\ Len(deferred.requests) < MaxRequests)
            => \A content \in 1..MaxContents : ENABLED Request(content))
    /\ [][\A content \in 1..MaxContents : Request(content) =>
            /\ deferred'.waits = deferred.waits
            /\ \A t \in 1..Len(deferred.tasks) :
                    deferred'.tasks[t] = deferred.tasks[t]]_vars

\* Two requests had equal content, the second was issued while the
\* compression of the first was pending, and both were awaited after the walk.
C19_Witness ==
    /\ Len(deferred.waits) >= 2
    /\ \E r, q \in 1..Len(deferred.waits) :
        /\ r # q
        /\ deferred.requests[r].content = deferred.requests[q].content
        /\ deferred.requests[r].task = deferred.requests[q].task
        /\ r < q
        /\ deferred.requests[q].pending
    /\ Len(deferred.tasks) >= 2

\* ------------------------------------------------------------------------
\* C21: the GlobalRefs are allocated exactly once per run, at the start of
\* the pipeline: before the constructor writes any object into its chunk and
\* before the shared allocator gives an id to a merged object; no later phase
\* allocates them again or changes their ids.
C21_GlobalsAtStart ==
    /\ [](\A c \in 1..Len(chunks) : Len(chunks[c].locals) > 0 => chunks[c].globals)
    /\ [](step >= 1 =>
            \A c \in 1..Len(chunks) : \A i \in 1..Len(chunks[c].finals) :
                \A g \in AllGlobalIds : g < chunks[c].finals[i])
    /\ [][step >= 1 => (context' = context /\ globals_count' = globals_count)]_vars

\* What of C21 holds: the globals are allocated in construct, once, before
\* the shared allocator gives an id to a merged object (they are the ids from
\* FIRST_REF on), and no later step changes them.
C21_GlobalsBeforeMerge ==
    /\ [](step = 0 => (context = <<>> /\ alloc = FIRST_REF /\ pdf = <<>>))
    /\ [](step >= 1 =>
            /\ AllGlobalIds = FIRST_REF..globals_count
            /\ \A c \in 1..Len(chunks) : \A i \in 1..Len(chunks[c].finals) :
                    \A g \in AllGlobalIds : g < chunks[c].finals[i])
    /\ [][step >= 1 => (context' = context /\ globals_count' = globals_count)]_vars

\* ------------------------------------------------------------------------
\* C22: every sequence of calls that PdfBuilder accepts has the shape
\* construct, with_resource*, write*, export: nothing is called before
\* construct, and no with_resource is called after a write.
C22_PhaseShape ==
    LET c == builder.calls
    IN  /\ c # <<>> => c[1] = "construct"
        /\ \A i \in 2..Len(c) : c[i] # "construct"
        /\ \A i \in 1..Len(c) : c[i] = "export" => i = Len(c)
        /\ \A i, j \in 1..Len(c) :
                (i < j /\ c[i] = "write") => c[j] # "with_resource"

\* What of C22 holds: construct is the first call and is not called again,
\* and export is the last call.
C22_ConstructFirst ==
    LET c == builder.calls
    IN  /\ c # <<>> => c[1] = "construct"
        /\ \A i \in 2..Len(c) : c[i] # "construct"
        /\ \A i \in 1..Len(c) : c[i] = "export" => i = Len(c)

\* ------------------------------------------------------------------------
\* C23: construct can be run more than once, for separate constructors,
\* before the first with_resource: after a construct, as long as no
\* with_resource was called, another construct is accepted.
C23_ConstructAgain ==
    (/\ builder.calls # <<>>
     /\ Len(builder.calls) < MaxCalls
     /\ \A i \in 1..Len(builder.calls) : builder.calls[i] = "construct")
        => ENABLED CallConstruct

\* What holds instead: a builder runs construct once.
C23_ConstructOnce ==
    Cardinality({i \in 1..Len(builder.calls) : builder.calls[i] = "construct"}) <= 1

\* ------------------------------------------------------------------------
\* The number of contexts of a tree, and the ids of their resource
\* dictionaries in the order context, color-font sub-context, pattern
\* sub-context.
RECURSIVE TreeSize(_)
TreeSize(ctx) ==
    1 + (IF ctx.color_fonts = <<>> THEN 0 ELSE TreeSize(ctx.color_fonts[1]))
      + (IF ctx.patterns = <<>> THEN 0 ELSE TreeSize(ctx.patterns[1]))

RECURSIVE VisitOrder(_)
VisitOrder(ctx) ==
    <<ctx.globals.resources>>
        \o (IF ctx.color_fonts = <<>> THEN <<>> ELSE VisitOrder(ctx.color_fonts[1]))
        \o (IF ctx.patterns = <<>> THEN <<>> ELSE VisitOrder(ctx.patterns[1]))

\* The indices, in chunks, of the chunks of a phase.
PhaseChunks(p) == {c \in 1..Len(chunks) : chunks[c].phase = p}

\* What a step that starts at a with_resource step does: the counters grow
\* by the number of contexts, and what earlier phases left is kept.
PhaseStep ==
    step \in 1..7 =>
        /\ step' = step + 1
        /\ current_alloc_section' = current_alloc_section + TreeSize(context[1])
        /\ Len(chunks') = Len(chunks) + TreeSize(context[1])
        /\ SubSeq(chunks', 1, Len(chunks)) = chunks
        /\ SubSeq(references', 1, Len(references)) = references

\* C24: one with_resource phase runs the resource's write exactly once for
\* every context (the root, then its color-font sub-context, then its pattern
\* sub-context), each time into a new chunk with a new section; all chunks of
\* the phase share one rewrite table; the phase ends, with as many chunks as
\* there are contexts; the section counter grows by exactly the number of
\* contexts.  (Stated for the phase that ended last; the records of the
\* phases before it are kept as they were.)
C24_OncePerContext ==
    /\ [](step \in 2..8 =>
            LET order == VisitOrder(context[1])
                first == Len(chunks) - Len(order) + 1
            IN  /\ PhaseChunks(step) = first..Len(chunks)
                /\ Len(order) = TreeSize(context[1])
                /\ \A k \in 1..Len(order) :
                    /\ chunks[first + k - 1].ctx = order[k]
                    /\ chunks[first + k - 1].section = chunks[first].section + k - 1
                    /\ \A d \in 1..(first - 1) :
                            chunks[d].section < chunks[first].section
                /\ references[step - 1] = PhaseFinals(step, 1))
    /\ [][PhaseStep]_vars

\* A phase ran on a tree of three contexts, and two of its chunks hold
\* objects.
C24_Witness ==
    /\ step >= 2
    /\ TreeSize(context[1]) = 3
    /\ Cardinality({c \in PhaseChunks(2) : Len(chunks[c].locals) > 0}) = 2

\* ------------------------------------------------------------------------
\* C25: after a with_resource phase, every reference it saved is the final id
\* its local id was rewritten to in the merge, for every order in which the
\* (old, new) pairs are applied; no reference is rewritten twice, also when a
\* fresh final id is numerically equal to the old id of another pair.
C25_SavedAreFinals ==
    /\ \A p \in 1..Len(references) :
        (\A b \in 1..Len(merge.bulk) : merge.bulk[b].phase # p)
            => references[p] = PhaseFinals(p + 1, 1)
    /\ \A b \in 1..Len(merge.bulk) :
        LET bulk == merge.bulk[b]
        IN  \A k \in 1..Len(bulk.output) :
                references[bulk.phase][k] = BulkNew(bulk.output[k], bulk.start, bulk.first)

\* What of C25 holds: as long as the allocator is below the ids of the
\* phase's chunks, every saved reference is the final id of its local id.
C25_BelowChunks ==
    \A b \in 1..Len(merge.bulk) :
        LET bulk == merge.bulk[b]
        IN  bulk.first + bulk.count <= bulk.start =>
                \A k \in 1..Len(bulk.output) :
                    references[bulk.phase][k]
                        = BulkNew(bulk.output[k], bulk.start, bulk.first)

\* ------------------------------------------------------------------------
\* C26: a final id assigned by an earlier merge keeps denoting its object in
\* every later phase: a reference to it in a chunk merged later is the same
\* id after the merge, not a fresh one.
C26_EarlierFinalsKept ==
    \A c \in 1..Len(chunks) : \A pair \in chunks[c].grefs :
        pair[1] >= merge.first => pair[2] = pair[1]

\* ------------------------------------------------------------------------
\* The glyphs of the window the Type3 font type3.out[j] was written from.
WindowOf(j) ==
    LET f == type3.out[j]
    IN  SubSeq(MapOf(f.ctx).vals[f.font].glyphs,
               f.subfont * SLICE_SIZE + 1, f.subfont * SLICE_SIZE + f.glyph_count)

\* C28: the subset tag of a slice is computed from the glyph ids in sorted
\* order, so it depends on the set of glyph ids only: two slices with the
\* same set, recorded in different orders, get the same tag input.  Sorting
\* does not change the order of Widths, CharProcs, Encoding or ToUnicode,
\* which stay in the order of the window.
C28_TagFromSortedSet ==
    type3.status = "done" =>
        /\ \A j \in 1..Len(type3.out) :
            LET f      == type3.out[j]
                window == WindowOf(j)
            IN  /\ Len(f.subset_gids) = f.glyph_count
                /\ Range(f.subset_gids) = {window[i].gid : i \in 1..Len(window)}
                /\ \A i, k \in 1..Len(f.subset_gids) :
                        i < k => f.subset_gids[i] < f.subset_gids[k]
                /\ Len(f.Widths) = Len(window)
                /\ Len(f.CharProcs) = Len(window)
                /\ Len(f.Encoding) = Len(window)
                /\ \A i \in 1..Len(window) :
                    /\ f.Widths[i] = Width(f.font, window[i].gid)
                    /\ f.CharProcs[i].name = i - 1
                    /\ f.CharProcs[i].content = window[i].instructions
                    /\ f.Encoding[i] = i - 1
                    /\ (i - 1) \in DOMAIN f.ToUnicode =>
                            f.ToUnicode[i - 1]
                                = resources[f.ctx].glyph_sets[f.font][window[i].gid]
        /\ \A j, k \in 1..Len(type3.out) :
                Range(type3.out[j].subset_gids) = Range(type3.out[k].subset_gids)
                    => type3.out[j].subset_gids = type3.out[k].subset_gids

\* A Type3 font was written from a window whose glyph ids are not in
\* ascending order, with a ToUnicode entry for its first code.
C28_Witness ==
    /\ type3.status = "done"
    /\ \E j \in 1..Len(type3.out) :
        /\ type3.out[j].glyph_count >= 2
        /\ WindowOf(j)[1].gid > WindowOf(j)[2].gid
        /\ type3.out[j].subset_gids[1] < type3.out[j].subset_gids[2]
        /\ 0 \in DOMAIN type3.out[j].ToUnicode

\* ------------------------------------------------------------------------
\* The Type3 font registered under the key (font, subfont) holds, at code
\* code, the instructions of glyph.
Registered(font, subfont, code, glyph) ==
    \E j \in 1..Len(type3.out) :
        /\ type3.out[j].font = font
        /\ type3.out[j].subfont = subfont
        /\ code < Len(type3.out[j].CharProcs)
        /\ type3.out[j].CharProcs[code + 1].name = code
        /\ type3.out[j].Encoding[code + 1] = code
        /\ type3.out[j].CharProcs[code + 1].content = glyph.instructions

\* Every glyph recorded in context c is in the font registered for its
\* slice, at its code.
GlyphsRegistered(c) ==
    \A font \in FontsOf(c) :
        \A index \in 1..Len(MapOf(c).vals[font].glyphs) :
            Registered(font, (index - 1) \div SLICE_SIZE, (index - 1) % SLICE_SIZE,
                       MapOf(c).vals[font].glyphs[index])

\* C30: for every resource context and every glyph recorded there for a font
\* at index, the Type3 font registered for the slice (font, index / 256)
\* holds the glyph's instructions at code index mod 256, also when the font
\* has color glyphs in more than one context with different glyph sequences
\* and the slice key, already emitted for an earlier context, is skipped.
C30_EveryContextRegistered ==
    type3.status = "done" => \A c \in 1..Len(resources) : GlyphsRegistered(c)

\* What of C30 holds: the glyphs of a font that has color glyphs in one
\* context only, and those of the first context traverse visits.
C30_FontsApart ==
    type3.status = "done" =>
        /\ FontsApart => \A c \in 1..Len(resources) : GlyphsRegistered(c)
        /\ GlyphsRegistered(1)

\* ------------------------------------------------------------------------
\* What get returns for the glyph recorded at index (from 1) for font in
\* context c agrees with the fonts written: the slice id is that of the
\* font's slice (index - 1) / 256, the code is (index - 1) mod 256, and the
\* Type3 font written for that slice has the glyph's instructions under the
\* name of that code.
RecordAgrees(c, font, index) ==
    LET color_font == MapOf(c).vals[font]
        glyph      == color_font.glyphs[index]
        ret        == ColorFontMapGet(resources[c].color_fonts[1], font, glyph.gid).ret
        q          == (index - 1) \div SLICE_SIZE
    IN  /\ ret[1] = color_font.slice_ids[q + 1]
        /\ ret[2] = (index - 1) % SLICE_SIZE
        /\ Registered(font, q, ret[2], glyph)

\* C27: record and emission agree: if ColorFontMap::get returned (s, p) for
\* glyph g of font F, then s is the id of F's slice q = index / 256,
\* p = index mod 256, and the Type3 font emitted for (F, q) maps code p to
\* the name glyph{p}, whose CharProcs entry is the stream with g's
\* instructions.
C27_RecordEmissionAgree ==
    type3.status = "done" =>
        \A c \in 1..Len(resources) : \A font \in FontsOf(c) :
            \A index \in 1..Len(MapOf(c).vals[font].glyphs) :
                RecordAgrees(c, font, index)

\* What of C27 holds: record and emission agree for the fonts that have
\* color glyphs in one context only.
C27_FontsApart ==
    (type3.status = "done" /\ FontsApart) =>
        \A c \in 1..Len(resources) : \A font \in FontsOf(c) :
            \A index \in 1..Len(MapOf(c).vals[font].glyphs) :
                RecordAgrees(c, font, index)

\* ------------------------------------------------------------------------
\* The images registered in a deduplication table.
Registered29(table) == DOMAIN table.to_pdf

\* A step of get: the map or the record of the last call changes.
GetStep == color_fonts' # color_fonts \/ cf_call' # cf_call

\* C29: recording a color glyph with ColorFontMap::get registers the
\* resources the glyph's instructions need only in the map's own nested
\* resource context: the deduplication tables of the context that owns the
\* map are unchanged by the call, and the nested tables are never copied back
\* into them.
C29_NestedOnly ==
    /\ [][GetStep =>
            /\ remapper' = remapper
            /\ rm_first' = rm_first
            /\ cf_call' # <<>>
            /\ Range(FrameImages(cf_call'[1].font, cf_call'[1].gid))
                    \subseteq Registered29(color_fonts'.resources.images)
            /\ Registered29(color_fonts.resources.images)
                    \subseteq Registered29(color_fonts'.resources.images)]_vars
    /\ [][remapper' # remapper =>
            /\ color_fonts' = color_fonts
            /\ rm_call' # <<>>
            /\ Registered29(remapper') = Registered29(remapper) \cup {rm_call'[1].item}]_vars
    /\ [](Registered29(remapper) = Range(rm_first))
    /\ [](Registered29(color_fonts.resources.images)
            = UNION {Range(FrameImages(fg[1], fg[2])) : fg \in DOMAIN cf_first})

\* The context's table and the map's nested table both hold images, the
\* nested one an image the context's table does not hold, and the last call
\* of get recorded a glyph.
C29_Witness ==
    /\ cf_call # <<>>
    /\ Registered29(remapper) # {}
    /\ Registered29(color_fonts.resources.images) # {}
    /\ ~(Registered29(color_fonts.resources.images) \subseteq Registered29(remapper))
    /\ Len(GlyphsOf(color_fonts, 2)) >= 1

\* ------------------------------------------------------------------------
\* The reverse index and the glyph sequence of a ColorFont are inverse to
\* each other.
IndexInverse(color_font) ==
    /\ Cardinality(DOMAIN color_font.glyph_indices) = Len(color_font.glyphs)
    /\ DOMAIN color_font.glyph_indices
            = {color_font.glyphs[i].gid : i \in 1..Len(color_font.glyphs)}
    /\ \A g \in DOMAIN color_font.glyph_indices :
        /\ color_font.glyph_indices[g] \in 0..(Len(color_font.glyphs) - 1)
        /\ color_font.glyphs[color_font.glyph_indices[g] + 1].gid = g
    /\ Cardinality({color_font.glyphs[i].gid : i \in 1..Len(color_font.glyphs)})
            = Len(color_font.glyphs)

\* A step leaves the glyphs of every font in place and at most appends.
GlyphsOnlyGrow ==
    \A font \in DOMAIN color_fonts.map.vals :
        /\ font \in DOMAIN color_fonts'.map.vals
        /\ Len(color_fonts'.map.vals[font].glyphs) >= Len(color_fonts.map.vals[font].glyphs)
        /\ SubSeq(color_fonts'.map.vals[font].glyphs, 1,
                  Len(color_fonts.map.vals[font].glyphs))
                = color_fonts.map.vals[font].glyphs

\* C39: after any sequence of get calls, for every font glyph_indices has
\* exactly one entry per glyph of the sequence, glyphs[glyph_indices[g]].gid
\* = g for every recorded g, no glyph id occurs twice in the sequence, and
\* the sequence only grows by appending.
C39_IndexInverse ==
    /\ [](\A font \in DOMAIN color_fonts.map.vals :
            IndexInverse(color_fonts.map.vals[font]))
    /\ [][GlyphsOnlyGrow]_vars

\* Font 1 has glyphs in two slices, recorded out of glyph-id order, and the
\* last call asked again for a recorded glyph.
C39_Witness ==
    /\ Len(GlyphsOf(color_fonts, 1)) > SLICE_SIZE
    /\ GlyphsOf(color_fonts, 1)[1].gid > GlyphsOf(color_fonts, 1)[2].gid
    /\ cf_call # <<>>
    /\ cf_call[1].font = 1
    /\ cf_call[1].gid = GlyphsOf(color_fonts, 1)[1].gid

\* ------------------------------------------------------------------------
\* The (font, place) pairs of the slice ids of the map, and the sum over the
\* fonts of the numbers of their slice ids.
SlicePlaces ==
    UNION {{<<font, k>> : k \in 1..Len(color_fonts.map.vals[font].slice_ids)} :
            font \in DOMAIN color_fonts.map.vals}

RECURSIVE SliceSum(_, _)
SliceSum(keys, i) ==
    IF i > Len(keys) THEN 0
    ELSE Len(color_fonts.map.vals[keys[i]].slice_ids) + SliceSum(keys, i + 1)

\* A step of with_refs: the resources of the map get their reference.
WithRefsStep ==
    color_fonts.resources.reference = <<>> /\ color_fonts'.resources.reference # <<>>

\* C40: after any sequence of get calls on one map, total_slice_count is the
\* sum over its fonts of the number of their slice ids, the slice ids in use
\* are exactly 0..total_slice_count-1, each held by one font, each font's
\* slice ids are strictly increasing, and with_refs keeps the map and the
\* count unchanged.
C40_SliceCount ==
    /\ [](color_fonts.total_slice_count = SliceSum(color_fonts.map.keys, 1))
    /\ []({color_fonts.map.vals[p[1]].slice_ids[p[2]] : p \in SlicePlaces}
            = 0..(color_fonts.total_slice_count - 1))
    /\ [](Cardinality(SlicePlaces) = color_fonts.total_slice_count)
    /\ [](\A font \in DOMAIN color_fonts.map.vals :
            \A i, k \in 1..Len(color_fonts.map.vals[font].slice_ids) :
                i < k => color_fonts.map.vals[font].slice_ids[i]
                            < color_fonts.map.vals[font].slice_ids[k])
    /\ [][WithRefsStep =>
            /\ color_fonts'.map = color_fonts.map
            /\ color_fonts'.total_slice_count = color_fonts.total_slice_count]_vars

\* with_refs was called on a map with three slices of two fonts, the second
\* slice of font 1 having been started after the slice of font 2.
C40_Witness ==
    /\ color_fonts.resources.reference # <<>>
    /\ color_fonts.total_slice_count = 3
    /\ 2 \in DOMAIN color_fonts.map.vals
    /\ color_fonts.map.vals[1].slice_ids = <<0, 2>>
    /\ color_fonts.map.vals[2].slice_ids = <<1>>

\* ------------------------------------------------------------------------
\* The closure of renumber_into leaves the id r as it is.
IdentityMapped(r) ==
    RenumberRef(r, globals_count, [mapping |-> EmptyMap, alloc |-> alloc]).ref = r

\* C31: for every page count and every tree of nested contexts, each id a
\* chunk's local allocator issues is greater than or equal to the threshold
\* globals_count, so the merge never identity-maps a locally allocated
\* object, and the products section * ALLOC_SECTION_SIZE stay within the i32.
C31_LocalsAboveThreshold ==
    /\ pdf_chunks.status = "ok"
    /\ \A c \in 1..Len(pdf_chunks.list) :
        LET chunk == pdf_chunks.list[c]
        IN  /\ ~StartOverflows(chunk.section)
            /\ chunk.count > 0 =>
                /\ ChunkStart(chunk.section) >= globals_count
                /\ ~IdentityMapped(ChunkStart(chunk.section))
                /\ chunk.last >= globals_count
                /\ ~IdentityMapped(chunk.last)

\* What of C31 holds: when the globals are fewer than ALLOC_SECTION_SIZE and
\* the sections do not go beyond MaxSection, every local id is at or above
\* the threshold and is given a fresh final id.
C31_SmallDocuments ==
    (globals_count < ALLOC_SECTION_SIZE /\ pdf_chunks.status = "ok") =>
        \A c \in 1..Len(pdf_chunks.list) :
            LET chunk == pdf_chunks.list[c]
            IN  /\ ~StartOverflows(chunk.section)
                /\ chunk.count > 0 =>
                    /\ ChunkStart(chunk.section) >= globals_count
                    /\ ~IdentityMapped(ChunkStart(chunk.section))
                    /\ chunk.last >= globals_count
                    /\ ~IdentityMapped(chunk.last)

\* ------------------------------------------------------------------------
\* eval::evaluate and import (src/eval/mod.rs).  A source is followed by its
\* id and its revision; its syntax tree by the statements evaluation meets
\* in it: imports, a failing expression, a break/continue/return at the top
\* level.  The evaluate calls in progress form a stack, one frame for each
\* call whose Machine is running.

MaxEdits == 1

MaxStmts == 1

\* The ids of the sources in the SourceStore.
Sources == {1, 2, 3}

\* Context: the revision of every source, the module cache, ctx.deps.
ContextNew ==
    [sources |-> [id \in Sources |-> 0],
     modules |-> [id \in Sources |-> <<>>],
     deps |-> <<>>]

\* How many edits the sources 1..n have had.
RECURSIVE SumRevs(_, _)
SumRevs(sources, n) ==
    IF n = 0 THEN 0 ELSE sources[n] + SumRevs(sources, n - 1)

EvaluatorNew ==
    [ctx |-> ContextNew, stack |-> <<>>, failing |-> FALSE, ret |-> <<>>,
     call |-> <<>>]

\* Module::valid: every recorded revision is the current one of its source.
ModuleValidAlways(module, sources) == TRUE

ModuleValid(module, sources) ==
    \A i \in 1..Len(module.deps) :
        module.deps[i][2] = sources[module.deps[i][1]]

\* route.contains(&id)
OnRouteNever(route, id) == FALSE

OnRoute(route, id) == \E i \in 1..Len(route) : route[i] = id

\* std::mem::replace(&mut ctx.deps, prev_deps): the deps collected by the
\* evaluation are taken out and the saved ones put back.
RestoreDepsKeeps(ctx, prev_deps) == ctx

RestoreDeps(ctx, prev_deps) == [ctx EXCEPT !.deps = prev_deps]

\* vm.ctx.deps.extend(module.deps.iter().cloned())
ExtendDeps(ctx, result) == [ctx EXCEPT !.deps = @ \o result.module[1].deps]

\* What the evaluate call that has just returned did: its arguments, the cache entry and ctx.deps
\* it found, whether the syntax tree was evaluated, its result, ctx.deps
\* when it returned (deps_exit) and when its caller had dealt with the
\* result (deps_after), and the deps of the modules its syntax tree imported.
EvalResult(id, route, via, found, outcome, module, evaluated, cached) ==
    [id |-> id, route |-> route, via |-> via, sources |-> found.sources,
     cached |-> cached, deps_entry |-> found.deps,
     outcome |-> outcome, module |-> module, evaluated |-> evaluated,
     deps_exit |-> <<>>, deps_after |-> <<>>, cache_exit |-> <<>>,
     imports |-> found.imports]

\* evaluate has returned result.  At the top level that is all; in import
\* (lines 987-990) an Err leaves through `?`, and the deps of an Ok module
\* are added to those of the importer.
Returned(ev, result) ==
    LET exit == [result EXCEPT !.deps_exit = ev.ctx.deps,
                               !.cache_exit = ev.ctx.modules[result.id]]
    IN  IF ev.stack = <<>>
        THEN [ev EXCEPT !.ret = <<[exit EXCEPT !.deps_after = ev.ctx.deps]>>]
        ELSE IF result.outcome \in {"hit", "ok"}
        THEN LET ctx == ExtendDeps(ev.ctx, result)
             IN  [ev EXCEPT !.ctx = ctx,
                            !.stack[Len(ev.stack)].imports =
                                Append(@, result.module[1].deps),
                            !.ret = <<[exit EXCEPT !.deps_after = ctx.deps]>>]
        ELSE [ev EXCEPT !.failing = TRUE,
                        !.ret = <<[exit EXCEPT !.deps_after = ev.ctx.deps]>>]

\* evaluate, lines 56-80: up to the creation of the Machine.
EvaluateCall(ev, id, route, parse_ok) ==
    LET ctx == [sources |-> ev.ctx.sources, modules |-> ev.ctx.modules,
                deps |-> ev.ctx.deps, imports |-> <<>>]
        via == IF ev.stack = <<>> THEN "top" ELSE "import"
        cached == ctx.modules[id]
        removed == [ev.ctx EXCEPT !.modules[id] = <<>>]
    IN  IF OnRoute(route, id)
        THEN Returned(ev, EvalResult(id, route, via, ctx, "panic", <<>>,
                                     FALSE, cached))
        ELSE IF cached # <<>> /\ ModuleValid(cached[1], ctx.sources)
        THEN Returned(ev, EvalResult(id, route, via, ctx, "hit", cached,
                                     FALSE, cached))
        ELSE IF ~parse_ok
        THEN Returned([ev EXCEPT !.ctx = removed],
                      EvalResult(id, route, via, ctx, "syntax error", <<>>,
                                 FALSE, cached))
        ELSE [ev EXCEPT
                !.ctx = [removed EXCEPT !.deps = <<<<id, ctx.sources[id]>>>>],
                !.stack = Append(@, [id |-> id, route |-> Append(route, id),
                                     prev_deps |-> ctx.deps,
                                     left |-> MaxStmts, flow |-> FALSE,
                                     via |-> via, cached |-> cached,
                                     sources |-> ctx.sources,
                                     imports |-> <<>>])]

\* evaluate, lines 82-102: ast.eval has returned.
EvaluateReturn(ev) ==
    LET f == ev.stack[Len(ev.stack)]
        deps == ev.ctx.deps
        restored == RestoreDeps(ev.ctx, f.prev_deps)
        module == [id |-> f.id, deps |-> deps]
        outcome == IF f.flow THEN "forbidden"
                   ELSE IF ev.failing THEN "error" ELSE "ok"
        ctx == IF outcome = "ok"
               THEN [restored EXCEPT !.modules[f.id] = <<module>>]
               ELSE restored
        found == [sources |-> f.sources, deps |-> f.prev_deps,
                  imports |-> f.imports]
    IN  Returned([ev EXCEPT !.ctx = ctx,
                            !.stack = SubSeq(@, 1, Len(@) - 1),
                            !.failing = FALSE],
                 EvalResult(f.id, SubSeq(f.route, 1, Len(f.route) - 1), f.via,
                            found, outcome,
                            IF outcome = "ok" THEN <<module>> ELSE <<>>,
                            TRUE, f.cached))

\* import, lines 972-990.
ImportCall(ev, target, parse_ok) ==
    LET n == Len(ev.stack)
        f == ev.stack[n]
        call == [importer |-> f.id, target |-> target, route |-> f.route,
                 error |-> IF OnRoute(f.route, target)
                           THEN "cyclic import" ELSE "",
                 depth |-> n]
        begun == [ev EXCEPT !.stack[n].left = @ - 1, !.call = <<call>>,
                            !.ret = <<>>]
    IN  IF OnRoute(f.route, target)
        THEN [begun EXCEPT !.failing = TRUE]
        ELSE EvaluateCall(begun, target, f.route, parse_ok)

EvInit ==
    /\ remapper = RemapperNew
    /\ rm_call = <<>>
    /\ rm_first = <<>>
    /\ color_fonts = ColorFontMapNew
    /\ cf_call = <<>>
    /\ cf_first = EmptyMap
    /\ resources = <<>>
    /\ type3 = NotWritten
    /\ step = 0
    /\ document = [pages |-> 0]
    /\ context = <<>>
    /\ alloc = FIRST_REF
    /\ current_alloc_section = 1
    /\ globals_count = 0
    /\ pdf = <<>>
    /\ references = <<>>
    /\ chunks = <<>>
    /\ pdf_chunks = PdfChunksNone
    /\ workers = WorkersNone
    /\ deferred = DeferredNone
    /\ builder = BuilderNone
    /\ merge = MergeNone
    /\ machine = MachineNone
    /\ evaluator = EvaluatorNew

\* A source is edited between two compilations: its revision goes up.
EditSource(id) ==
    /\ evaluator.stack = <<>>
    /\ SumRevs(evaluator.ctx.sources, Cardinality(Sources)) < MaxEdits
    /\ evaluator' = [evaluator EXCEPT !.ctx.sources[id] = @ + 1,
                                      !.ret = <<>>]
    /\ UNCHANGED <<rm_vars, cf_vars, t3_vars, pb_vars, ck_vars, wk_vars, df_vars,
                   ts_vars, mg_vars, vm_vars>>

\* evaluate(ctx, id, vec![]) from outside.
Evaluate(id, parse_ok) ==
    /\ evaluator.stack = <<>>
    /\ evaluator' = EvaluateCall([evaluator EXCEPT !.call = <<>>, !.ret = <<>>],
                                 id, <<>>, parse_ok)
    /\ UNCHANGED <<rm_vars, cf_vars, t3_vars, pb_vars, ck_vars, wk_vars, df_vars,
                   ts_vars, mg_vars, vm_vars>>

\* The running Machine meets an import or include of target.
Import(target, parse_ok) ==
    /\ evaluator.stack # <<>>
    /\ ~evaluator.failing
    /\ evaluator.stack[Len(evaluator.stack)].left > 0
    /\ evaluator' = ImportCall(evaluator, target, parse_ok)
    /\ UNCHANGED <<rm_vars, cf_vars, t3_vars, pb_vars, ck_vars, wk_vars, df_vars,
                   ts_vars, mg_vars, vm_vars>>

\* The running Machine meets an expression that fails.
EvalError ==
    /\ evaluator.stack # <<>>
    /\ ~evaluator.failing
    /\ evaluator' = [evaluator EXCEPT !.failing = TRUE, !.call = <<>>,
                                      !.ret = <<>>]
    /\ UNCHANGED <<rm_vars, cf_vars, t3_vars, pb_vars, ck_vars, wk_vars, df_vars,
                   ts_vars, mg_vars, vm_vars>>

\* The running Machine meets a break, continue or return outside of any
\* loop or function: vm.flow is set and the markup stops.
RaiseFlow ==
    /\ evaluator.stack # <<>>
    /\ ~evaluator.failing
    /\ ~evaluator.stack[Len(evaluator.stack)].flow
    /\ evaluator' = [evaluator EXCEPT !.stack[Len(evaluator.stack)].flow = TRUE,
                                      !.stack[Len(evaluator.stack)].left = 0,
                                      !.call = <<>>, !.ret = <<>>]
    /\ UNCHANGED <<rm_vars, cf_vars, t3_vars, pb_vars, ck_vars, wk_vars, df_vars,
                   ts_vars, mg_vars, vm_vars>>

\* ast.eval returns and evaluate finishes.
EvalFinish ==
    /\ evaluator.stack # <<>>
    /\ evaluator' = EvaluateReturn([evaluator EXCEPT !.call = <<>>])
    /\ UNCHANGED <<rm_vars, cf_vars, t3_vars, pb_vars, ck_vars, wk_vars, df_vars,
                   ts_vars, mg_vars, vm_vars>>

EvNext ==
    \/ \E id \in Sources : EditSource(id)
    \/ \E id \in Sources, parse_ok \in BOOLEAN : Evaluate(id, parse_ok)
    \/ \E target \in Sources, parse_ok \in BOOLEAN : Import(target, parse_ok)
    \/ EvalError
    \/ RaiseFlow
    \/ EvalFinish

SpecEvaluate == EvInit /\ [][EvNext]_vars

\* ------------------------------------------------------------------------
\* The evaluate call that returned last, if any.
LastReturn == evaluator.ret[1]

HasReturned == evaluator # EvaluatorNone /\ evaluator.ret # <<>>

\* Every revision the module cached at the call's entry recorded is the
\* revision its source had then.
CachedWasCurrent(r) ==
    /\ r.cached # <<>>
    /\ \A i \in 1..Len(r.cached[1].deps) :
        LET dep == r.cached[1].deps[i]
        IN  r.sources[dep[1]] = dep[2]

\* C32: evaluate(id) returns the cached module without evaluating again
\* exactly when a module is cached for id and every revision it recorded is
\* the current one; a stale cached module is removed and the source is
\* evaluated again; after a successful evaluate the module cached for id is
\* the one returned, and a failed evaluation caches nothing.
C32_CacheHitExactlyWhenValid ==
    /\ evaluator # EvaluatorNone =>
        \A k \in 1..Len(evaluator.stack) :
            evaluator.ctx.modules[evaluator.stack[k].id] = <<>>
    /\ HasReturned =>
        LET r == LastReturn
        IN  /\ (r.outcome = "hit") <=> CachedWasCurrent(r)
            /\ r.outcome = "hit" => ~r.evaluated /\ r.module = r.cached
            /\ ~CachedWasCurrent(r) =>
                r.evaluated \/ r.outcome = "syntax error"
            /\ r.outcome \in {"hit", "ok"} =>
                /\ r.module # <<>>
                /\ r.cache_exit = r.module
                /\ r.module[1].id = r.id
            /\ r.outcome \notin {"hit", "ok"} =>
                /\ r.module = <<>>
                /\ r.cache_exit = <<>>

\* A module cached with a stale dependency was replaced by a new one.
C32_Witness ==
    /\ HasReturned
    /\ LastReturn.cached # <<>>
    /\ ~CachedWasCurrent(LastReturn)
    /\ LastReturn.evaluated
    /\ LastReturn.outcome = "ok"
    /\ LastReturn.module # LastReturn.cached
    /\ Len(LastReturn.module[1].deps) > 1

\* ------------------------------------------------------------------------
\* The import statement evaluated last, if it was the last step.
LastImport == evaluator.call[1]

\* The ids of the evaluate calls in progress, outermost first.
StackIds == [k \in 1..Len(evaluator.stack) |-> evaluator.stack[k].id]

\* C33: importing or including a source already on the current route, the
\* importing file included, fails with "cyclic import" and does not evaluate
\* it; evaluate is never entered through import with an id contained in its
\* route; every chain of nested imports over the finite set of sources ends
\* (no source is on the route twice, so the chain is no longer than the
\* number of sources).
C33_NoCyclicEvaluation ==
    evaluator # EvaluatorNone =>
        /\ Len(evaluator.stack) <= Cardinality(Sources)
        /\ Cardinality({StackIds[k] : k \in 1..Len(StackIds)}) = Len(StackIds)
        /\ \A k \in 1..Len(evaluator.stack) :
            evaluator.stack[k].route = SubSeq(StackIds, 1, k)
        /\ evaluator.call # <<>> =>
            LET c == LastImport
                on_route == \E i \in 1..Len(c.route) : c.route[i] = c.target
            IN  /\ c.route[Len(c.route)] = c.importer
                /\ on_route <=> c.error = "cyclic import"
                /\ on_route =>
                    /\ evaluator.failing
                    /\ evaluator.ret = <<>>
                    /\ Len(evaluator.stack) = c.depth
                    /\ StackIds = c.route
                /\ ~on_route =>
                    \/ evaluator.ret # <<>> /\ LastReturn.id = c.target
                    \/ /\ Len(evaluator.stack) = c.depth + 1
                       /\ StackIds = Append(c.route, c.target)
        /\ evaluator.ret # <<>> =>
            /\ LastReturn.outcome # "panic"
            /\ \A i \in 1..Len(LastReturn.route) :
                LastReturn.route[i] # LastReturn.id

\* The third source of a chain of imports imports the first one.
C33_Witness ==
    /\ evaluator # EvaluatorNone
    /\ evaluator.call # <<>>
    /\ Len(LastImport.route) = Cardinality(Sources)
    /\ LastImport.target = LastImport.route[1]
    /\ LastImport.error = "cyclic import"
    /\ evaluator.failing

\* ------------------------------------------------------------------------
\* The sequences of deps in list, one after the other.
RECURSIVE Concat(_)
Concat(list) ==
    IF list = <<>> THEN <<>> ELSE Head(list) \o Concat(Tail(list))

\* C34: evaluate leaves ctx.deps as it found it in every outcome (cached
\* hit, success, evaluation error, forbidden control flow); the deps of the
\* returned module start with the module's own (id, revision) and contain
\* the deps of every module imported during its evaluation; import adds the
\* deps of the imported module to those of the importer, also when the
\* module came from the cache.
C34_DepsRestored ==
    /\ evaluator # EvaluatorNone /\ evaluator.stack # <<>> =>
        LET f == evaluator.stack[Len(evaluator.stack)]
        IN  evaluator.ctx.deps =
                <<<<f.id, evaluator.ctx.sources[f.id]>>>> \o Concat(f.imports)
    /\ HasReturned =>
        LET r == LastReturn
        IN  /\ r.deps_exit = r.deps_entry
            /\ r.outcome \in {"hit", "ok"} =>
                /\ Head(r.module[1].deps) = <<r.id, r.sources[r.id]>>
                /\ r.evaluated =>
                    Tail(r.module[1].deps) = Concat(r.imports)
            /\ r.via = "import" /\ r.outcome \in {"hit", "ok"} =>
                r.deps_after = r.deps_entry \o r.module[1].deps
            /\ r.via = "top" \/ r.outcome \notin {"hit", "ok"} =>
                r.deps_after = r.deps_entry

\* A module that imported another one was imported from the cache.
C34_Witness ==
    /\ HasReturned
    /\ LastReturn.via = "import"
    /\ LastReturn.outcome = "hit"
    /\ Len(LastReturn.module[1].deps) > 1
    /\ LastReturn.deps_entry # <<>>
    /\ LastReturn.deps_after = LastReturn.deps_entry \o LastReturn.module[1].deps

\* Every outcome of evaluate is met.
C34_AllOutcomes ==
    /\ HasReturned
    /\ LastReturn.outcome \in {"error", "forbidden"}
    /\ LastReturn.via = "import"
    /\ LastReturn.deps_entry # <<>>

\* ------------------------------------------------------------------------
\* Expressions evaluated by a Machine (src/eval/mod.rs).  The expression
\* under evaluation is followed as the stack of its eval calls in progress,
\* one frame for each block, loop, binary operation or assignment; literals
\* and break/continue/return are single steps.  A value is followed by its
\* type (and an array by its length); what the operators of ops answer for
\* two operands is an input of the step that applies the operator.

MaxDepth == 2

Value(type) == [type |-> type, len |-> 0]

Array(len) == [type |-> "array", len |-> len]

\* The Err of an operator.
OpErr == Value("error")

\* The values of the literals: none, the booleans, the empty array and an
\* array of two items.
Values ==
    {Value("none"), Value("false"), Value("true"), Array(0), Array(2)}

Answers == {OpErr, Value("none"), Value("false"), Value("true")}

Flows == {"none", "break", "continue", "return"}

\* BinOp: and, or, one of the other operators of apply ("add"), and the
\* assignments: = and the compound ones ("+=").
ApplyOps == {"and", "or", "add"}

AssignOps == {"=", "+="}

\* vm.scopes.enter() and vm.scopes.exit(), on the number of scopes entered.
ScopesEnter(scopes) == scopes + 1

ScopesExit(scopes) == scopes - 1

\* Machine::new, with the flow and the variable the expression finds.
MachineNew(flow, x) ==
    [status |-> "running", flow |-> flow, scopes |-> 0, x |-> x,
     value |-> Value("none"), stack |-> <<>>, done |-> <<>>]

\* The eval call of a block, loop, binary operation or assignment that has
\* just begun: saved is the flow it found, depth the scopes it found.
Frame(m, kind, op, phase) ==
    [kind |-> kind, op |-> op, phase |-> phase,
     saved |-> m.flow, depth |-> m.scopes, ran |-> FALSE, left |-> 0,
     lhs |-> Value("none"), out |-> Value("none"), order |-> <<>>,
     head_flow |-> "none", body_flow |-> "none"]

\* An Err leaves through `?`: nothing more of the expression runs.
Failed(m) == [m EXCEPT !.status = "error"]

\* BinaryExpr::apply, lines 551-555: the test that ends the operation after
\* its left operand.
ShortCircuitNever(op, lhs) == FALSE

ShortCircuit(op, lhs) ==
    \/ op = "and" /\ lhs = Value("false")
    \/ op = "or" /\ lhs = Value("true")

\* `if flow.is_some() { vm.flow = flow; }` at the end of eval_code,
\* eval_markup, WhileExpr::eval and ForExpr::eval.
RestoreFlow(saved, flow) == IF saved # "none" THEN saved ELSE flow

RECURSIVE Deliver(_, _)

\* The eval call on top of the stack returns Ok(v) to its caller.
Complete(m, v) ==
    LET n == Len(m.stack)
        summary == [frame |-> m.stack[n], flow |-> m.flow,
                    scopes |-> m.scopes, value |-> v]
    IN  Deliver([m EXCEPT !.stack = SubSeq(@, 1, n - 1),
                          !.done = Append(@, summary)], v)

\* CodeBlock::eval and ContentBlock::eval after the last expression.
EndBlockOp(m) ==
    LET f == m.stack[Len(m.stack)]
    IN  Complete([m EXCEPT !.flow = RestoreFlow(f.saved, @),
                           !.scopes = ScopesExit(@)], f.out)

\* WhileExpr::eval and ForExpr::eval after the loop.
FinishLoop(m) ==
    LET f == m.stack[Len(m.stack)]
    IN  Complete([m EXCEPT !.flow = RestoreFlow(f.saved, @),
                           !.scopes = IF f.kind = "for" THEN ScopesExit(@)
                                      ELSE @], f.out)

\* The match on vm.flow after the body of a loop; more says whether the loop
\* has a further round to go to.
AfterBody(m, more) ==
    LET n == Len(m.stack)
        next == IF m.stack[n].kind = "while" THEN "cond" ELSE "body"
    IN  CASE m.flow = "break" -> FinishLoop([m EXCEPT !.flow = "none"])
          [] m.flow = "continue" ->
                IF more THEN [m EXCEPT !.flow = "none", !.stack[n].phase = next]
                ELSE FinishLoop([m EXCEPT !.flow = "none"])
          [] m.flow = "return" -> FinishLoop(m)
          [] OTHER ->
                IF more THEN [m EXCEPT !.stack[n].phase = next]
                ELSE FinishLoop(m)

\* std::mem::take(&mut *location): the location is left with the default
\* value.
Take(x) == Value("none")

\* BinaryExpr::assign, lines 569-572: the location of x is taken, and the
\* operator has answered with answer for the taken value and rhs.
AssignOp(m, rhs, answer) ==
    LET n == Len(m.stack)
        taken == [m EXCEPT !.stack[n].lhs = m.x, !.stack[n].phase = "failed",
                           !.x = Take(@)]
    IN  IF answer = OpErr THEN Failed(taken)
        ELSE Complete([taken EXCEPT !.x = answer], Value("none"))

\* BinaryExpr::apply, line 559: the operator has answered with answer.
ApplyOp(m, answer) ==
    LET n == Len(m.stack)
        applied == [m EXCEPT !.stack[n].phase = "failed"]
    IN  IF answer = OpErr THEN Failed(applied)
        ELSE Complete(applied, answer)

\* A sub-expression has returned Ok(v) to the eval call on top of the stack.
Deliver(m, v) ==
    IF m.stack = <<>>
    THEN [m EXCEPT !.status = "done", !.value = v]
    ELSE
    LET n == Len(m.stack)
        f == m.stack[n]
    IN  CASE f.kind \in {"code", "content"} ->
                LET got == [m EXCEPT !.stack[n].out = v]
                IN  IF m.flow # "none" THEN EndBlockOp(got) ELSE got
          [] f.kind = "while" /\ f.phase = "cond" ->
                LET got == [m EXCEPT !.stack[n].head_flow = m.flow]
                IN  IF v.type \notin {"true", "false"} THEN Failed(got)
                    ELSE IF v.type = "false" THEN FinishLoop(got)
                    ELSE [got EXCEPT !.stack[n].phase = "body"]
          [] f.kind = "for" /\ f.phase = "iter" ->
                LET got == [m EXCEPT !.stack[n].head_flow = m.flow]
                IN  IF v.type # "array" THEN Failed(got)
                    ELSE IF v.len = 0 THEN FinishLoop(got)
                    ELSE [got EXCEPT !.stack[n].phase = "body",
                                     !.stack[n].left = v.len]
          [] f.kind = "while" /\ f.phase = "body" ->
                AfterBody([m EXCEPT !.stack[n].body_flow = m.flow,
                                    !.stack[n].ran = TRUE,
                                    !.stack[n].out = v], TRUE)
          [] f.kind = "for" /\ f.phase = "body" ->
                AfterBody([m EXCEPT !.stack[n].body_flow = m.flow,
                                    !.stack[n].ran = TRUE,
                                    !.stack[n].left = @ - 1,
                                    !.stack[n].out = v], f.left > 1)
          [] f.kind = "binary" /\ f.phase = "lhs" ->
                LET got == [m EXCEPT !.stack[n].lhs = v,
                                     !.stack[n].order = Append(@, "lhs")]
                IN  IF ShortCircuit(f.op, v) THEN Complete(got, v)
                    ELSE [got EXCEPT !.stack[n].phase = "rhs"]
          [] f.kind = "binary" /\ f.phase = "rhs" ->
                [m EXCEPT !.stack[n].order = Append(@, "rhs"),
                          !.stack[n].out = v, !.stack[n].phase = "op"]
          [] OTHER ->
                [m EXCEPT !.stack[n].out = v, !.stack[n].phase = "op"]

\* The operands of the operation on top of the stack are evaluated.
AtOp(m) == m.stack # <<>> /\ m.stack[Len(m.stack)].phase = "op"

\* The Machine is at a place where a sub-expression begins.
Awaiting(m) == m.status = "running" /\ ~AtOp(m)

\* The place is the body of a loop, which the syntax makes a block.
AtLoopBody(m) ==
    /\ m.stack # <<>>
    /\ m.stack[Len(m.stack)].kind \in {"while", "for"}
    /\ m.stack[Len(m.stack)].phase = "body"

AtExpr(m) == Awaiting(m) /\ ~AtLoopBody(m)

Begin(m) == [m EXCEPT !.done = <<>>]

\* BreakExpr::eval, ContinueExpr::eval, ReturnExpr::eval (without a body).
RaiseOp(m, flow) ==
    Deliver([m EXCEPT !.flow = IF @ = "none" THEN flow ELSE @], Value("none"))

\* CodeBlock::eval, ContentBlock::eval: scopes.enter(), then eval_code or
\* eval_markup take the flow.
EnterBlockOp(m, kind) ==
    [m EXCEPT !.stack = Append(@, Frame(m, kind, "", "exprs")),
              !.scopes = ScopesEnter(@), !.flow = "none"]

EnterWhileOp(m) ==
    [m EXCEPT !.stack = Append(@, Frame(m, "while", "", "cond")),
              !.flow = "none"]

EnterForOp(m) ==
    [m EXCEPT !.stack = Append(@, Frame(m, "for", "", "iter")),
              !.scopes = ScopesEnter(@), !.flow = "none"]

VmInit ==
    /\ remapper = RemapperNew
    /\ rm_call = <<>>
    /\ rm_first = <<>>
    /\ color_fonts = ColorFontMapNew
    /\ cf_call = <<>>
    /\ cf_first = EmptyMap
    /\ resources = <<>>
    /\ type3 = NotWritten
    /\ step = 0
    /\ document = [pages |-> 0]
    /\ context = <<>>
    /\ alloc = FIRST_REF
    /\ current_alloc_section = 1
    /\ globals_count = 0
    /\ pdf = <<>>
    /\ references = <<>>
    /\ chunks = <<>>
    /\ pdf_chunks = PdfChunksNone
    /\ workers = WorkersNone
    /\ deferred = DeferredNone
    /\ builder = BuilderNone
    /\ merge = MergeNone
    /\ evaluator = EvaluatorNone
    /\ machine = MachineNew("none", Value("true"))

\* A literal, or any expression without sub-expressions that gives v.
Literal(v) ==
    /\ AtExpr(machine)
    /\ machine' = Deliver(Begin(machine), v)
    /\ UNCHANGED <<rm_vars, cf_vars, t3_vars, pb_vars, ck_vars, wk_vars, df_vars,
                   ts_vars, mg_vars, ev_vars>>

\* An expression without sub-expressions that fails (an unknown variable).
FailExpr ==
    /\ AtExpr(machine)
    /\ machine' = Failed(Begin(machine))
    /\ UNCHANGED <<rm_vars, cf_vars, t3_vars, pb_vars, ck_vars, wk_vars, df_vars,
                   ts_vars, mg_vars, ev_vars>>

BreakExprEval ==
    /\ AtExpr(machine)
    /\ machine' = RaiseOp(Begin(machine), "break")
    /\ UNCHANGED <<rm_vars, cf_vars, t3_vars, pb_vars, ck_vars, wk_vars, df_vars,
                   ts_vars, mg_vars, ev_vars>>

ContinueExprEval ==
    /\ AtExpr(machine)
    /\ machine' = RaiseOp(Begin(machine), "continue")
    /\ UNCHANGED <<rm_vars, cf_vars, t3_vars, pb_vars, ck_vars, wk_vars, df_vars,
                   ts_vars, mg_vars, ev_vars>>

ReturnExprEval ==
    /\ AtExpr(machine)
    /\ machine' = RaiseOp(Begin(machine), "return")
    /\ UNCHANGED <<rm_vars, cf_vars, t3_vars, pb_vars, ck_vars, wk_vars, df_vars,
                   ts_vars, mg_vars, ev_vars>>

CodeBlockEval ==
    /\ Awaiting(machine)
    /\ Len(machine.stack) < MaxDepth
    /\ machine' = EnterBlockOp(Begin(machine), "code")
    /\ UNCHANGED <<rm_vars, cf_vars, t3_vars, pb_vars, ck_vars, wk_vars, df_vars,
                   ts_vars, mg_vars, ev_vars>>

ContentBlockEval ==
    /\ Awaiting(machine)
    /\ Len(machine.stack) < MaxDepth
    /\ machine' = EnterBlockOp(Begin(machine), "content")
    /\ UNCHANGED <<rm_vars, cf_vars, t3_vars, pb_vars, ck_vars, wk_vars, df_vars,
                   ts_vars, mg_vars, ev_vars>>

\* The expressions of the block on top of the stack are exhausted.
EndBlock ==
    /\ machine.status = "running"
    /\ machine.stack # <<>>
    /\ machine.stack[Len(machine.stack)].kind \in {"code", "content"}
    /\ machine' = EndBlockOp(Begin(machine))
    /\ UNCHANGED <<rm_vars, cf_vars, t3_vars, pb_vars, ck_vars, wk_vars, df_vars,
                   ts_vars, mg_vars, ev_vars>>

WhileExprEval ==
    /\ AtExpr(machine)
    /\ Len(machine.stack) < MaxDepth
    /\ machine' = EnterWhileOp(Begin(machine))
    /\ UNCHANGED <<rm_vars, cf_vars, t3_vars, pb_vars, ck_vars, wk_vars, df_vars,
                   ts_vars, mg_vars, ev_vars>>

ForExprEval ==
    /\ AtExpr(machine)
    /\ Len(machine.stack) < MaxDepth
    /\ machine' = EnterForOp(Begin(machine))
    /\ UNCHANGED <<rm_vars, cf_vars, t3_vars, pb_vars, ck_vars, wk_vars, df_vars,
                   ts_vars, mg_vars, ev_vars>>

\* BinaryExpr::eval for an operator of apply: the left operand is next.
BinaryApply(op) ==
    /\ AtExpr(machine)
    /\ Len(machine.stack) < MaxDepth
    /\ machine' = [Begin(machine) EXCEPT
                      !.stack = Append(@, Frame(machine, "binary", op, "lhs"))]
    /\ UNCHANGED <<rm_vars, cf_vars, t3_vars, pb_vars, ck_vars, wk_vars, df_vars,
                   ts_vars, mg_vars, ev_vars>>

\* BinaryExpr::eval for an assignment to the variable x: the right side is
\* next.
BinaryAssign(op) ==
    /\ AtExpr(machine)
    /\ Len(machine.stack) < MaxDepth
    /\ machine' = [Begin(machine) EXCEPT
                      !.stack = Append(@, Frame(machine, "assign", op, "rhs"))]
    /\ UNCHANGED <<rm_vars, cf_vars, t3_vars, pb_vars, ck_vars, wk_vars, df_vars,
                   ts_vars, mg_vars, ev_vars>>

\* Both operands are evaluated: op(lhs, rhs).at(span)?
Apply(answer) ==
    /\ machine.status = "running"
    /\ AtOp(machine)
    /\ machine.stack[Len(machine.stack)].kind = "binary"
    /\ machine' = ApplyOp(Begin(machine), answer)
    /\ UNCHANGED <<rm_vars, cf_vars, t3_vars, pb_vars, ck_vars, wk_vars, df_vars,
                   ts_vars, mg_vars, ev_vars>>

\* The right side is evaluated: the location is accessed and assigned.  The
\* operator of `=` is |_, b| Ok(b); those of the compound assignments are
\* operators of ops.
Assign(answer) ==
    /\ machine.status = "running"
    /\ AtOp(machine)
    /\ machine.stack[Len(machine.stack)].kind = "assign"
    /\ machine.stack[Len(machine.stack)].op = "=" =>
        answer = machine.stack[Len(machine.stack)].out
    /\ machine' = AssignOp(Begin(machine),
                           machine.stack[Len(machine.stack)].out, answer)
    /\ UNCHANGED <<rm_vars, cf_vars, t3_vars, pb_vars, ck_vars, wk_vars, df_vars,
                   ts_vars, mg_vars, ev_vars>>

\* Expressions made of literals, code blocks, loops, break/continue/return
\* and the operators of apply.
VmNext ==
    \/ \E v \in Values : Literal(v)
    \/ FailExpr
    \/ BreakExprEval
    \/ ContinueExprEval
    \/ ReturnExprEval
    \/ CodeBlockEval
    \/ EndBlock
    \/ WhileExprEval
    \/ ForExprEval
    \/ \E op \in ApplyOps : BinaryApply(op)
    \/ \E answer \in Answers : Apply(answer)

SpecMachine == VmInit /\ [][VmNext]_vars

\* Expressions made of literals, content blocks, the operators of apply and
\* assignments.
AsNext ==
    \/ \E v \in Values : Literal(v)
    \/ FailExpr
    \/ ContentBlockEval
    \/ EndBlock
    \/ \E op \in ApplyOps : BinaryApply(op)
    \/ \E answer \in Answers : Apply(answer)
    \/ \E op \in AssignOps : BinaryAssign(op)
    \/ \E answer \in Answers \cup Values : Assign(answer)

SpecAssign == VmInit /\ [][AsNext]_vars

\* ------------------------------------------------------------------------
\* The eval calls that returned Ok in the last step, innermost first.
Completed == IF machine = MachineNone THEN {} ELSE Range(machine.done)

CompletedLoops == {d \in Completed : d.frame.kind \in {"while", "for"}}

\* The flow the claim gives a finished loop: the one pending at its entry,
\* otherwise the return raised in its body, otherwise none.
FlowAfterLoop(d) ==
    IF d.frame.saved # "none" THEN d.frame.saved
    ELSE IF d.frame.body_flow = "return" THEN "return"
    ELSE "none"

\* C35: in a while or for loop break ends the loop and is cleared, continue
\* is cleared and the loop goes on, return ends the loop and stays pending;
\* when the loop finishes the pending flow is the one pending at loop entry
\* if there was one, otherwise the return raised in the body if any,
\* otherwise none; break and continue never escape their loop.
C35_LoopFlow ==
    \A d \in CompletedLoops :
        /\ d.flow = FlowAfterLoop(d)
        /\ d.frame.saved = "none" => d.flow \notin {"break", "continue"}

\* What of C35 holds: the flows raised in the body of the loop are handled
\* as the claim says; a loop whose condition or iterable raised no flow ends
\* with the flow the claim gives.
C35_BodyFlow ==
    /\ \A d \in CompletedLoops :
        /\ d.frame.head_flow = "none" => d.flow = FlowAfterLoop(d)
        /\ d.frame.saved # "none" => d.flow = d.frame.saved
        /\ d.frame.body_flow \in {"break", "return"} /\ d.frame.saved = "none"
            /\ d.frame.head_flow = "none" =>
                d.flow = IF d.frame.body_flow = "return" THEN "return"
                         ELSE "none"
    /\ machine # MachineNone =>
        \A k \in 1..Len(machine.stack) :
            LET f == machine.stack[k]
            IN  f.kind \in {"while", "for"} /\ f.ran =>
                    f.body_flow \in {"none", "continue"}

\* A loop that ended with a break of its condition or iterable pending.
C35_Escaped ==
    \E d \in CompletedLoops :
        /\ d.frame.saved = "none"
        /\ d.frame.head_flow = "break"
        /\ ~d.frame.ran
        /\ d.flow = "break"

\* ------------------------------------------------------------------------
\* The eval call that failed, when the expression ended with an Err in the
\* operator of an assignment.
AssignFailed ==
    /\ machine # MachineNone
    /\ machine.status = "error"
    /\ machine.stack # <<>>
    /\ machine.stack[Len(machine.stack)].kind = "assign"
    /\ machine.stack[Len(machine.stack)].phase = "failed"

\* C36: when the operator of an assignment (=, +=, -=, *=, /=) fails, the
\* assignment returns the error and the target keeps the value it had.
C36_TargetKept ==
    AssignFailed => machine.x = machine.stack[Len(machine.stack)].lhs

\* What the code does: the target was taken with std::mem::take and holds
\* the default value, none, when the operator fails; an assignment whose
\* right side fails has not touched the target.
C36_TargetTaken ==
    AssignFailed => machine.x = Value("none")

\* ------------------------------------------------------------------------
ScopedKinds == {"code", "content", "for"}

\* C37: evaluating a code block, a content block or a for loop leaves the
\* depth of the scope stack as on entry, on success and on error: every
\* scopes.enter() is matched by one scopes.exit().
C37_ScopesBalanced ==
    /\ \A d \in Completed :
        d.frame.kind \in ScopedKinds => d.scopes = d.frame.depth
    /\ machine # MachineNone /\ machine.status = "error" =>
        \A k \in 1..Len(machine.stack) :
            machine.stack[k].kind \in ScopedKinds =>
                machine.scopes = machine.stack[k].depth

\* What of C37 holds: on success the depth is as on entry; after an Err each
\* block or for loop left through `?` has its scope still entered.
C37_BalancedOnSuccess ==
    /\ \A d \in Completed :
        d.frame.kind \in ScopedKinds => d.scopes = d.frame.depth
    /\ machine # MachineNone =>
        machine.scopes =
            Cardinality({k \in 1..Len(machine.stack) :
                            machine.stack[k].kind \in ScopedKinds})

\* ------------------------------------------------------------------------
CompletedApply == {d \in Completed : d.frame.kind = "binary"}

\* C38: `and` with a false left operand and `or` with a true left operand
\* give the left operand and do not evaluate the right one; otherwise the
\* left operand is evaluated before the right one.
C38_ShortCircuit ==
    /\ \A d \in CompletedApply :
        LET f == d.frame
            short == \/ f.op = "and" /\ f.lhs.type = "false"
                     \/ f.op = "or" /\ f.lhs.type = "true"
        IN  /\ short => f.order = <<"lhs">> /\ d.value = f.lhs
            /\ ~short => f.order = <<"lhs", "rhs">>
    /\ machine # MachineNone =>
        \A k \in 1..Len(machine.stack) :
            LET f == machine.stack[k]
            IN  f.kind = "binary" =>
                    /\ f.phase = "lhs" => f.order = <<>>
                    /\ f.phase = "rhs" =>
                        /\ f.order = <<"lhs">>
                        /\ ~(f.op = "and" /\ f.lhs.type = "false")
                        /\ ~(f.op = "or" /\ f.lhs.type = "true")
                    /\ f.phase \in {"op", "failed"} =>
                        f.order = <<"lhs", "rhs">>

\* An `or` inside a block ended after its true left operand.
C38_Witness ==
    \E d \in CompletedApply :
        /\ d.frame.op = "or"
        /\ d.frame.lhs = Value("true")
        /\ d.frame.order = <<"lhs">>
        /\ d.value = Value("true")
        /\ machine.stack # <<>>

====
